---- MODULE Spec2Model ----
\* Model of the remote execution bridge of src/python/PythonBinding.py:
\* CcsJythonInterpreter (client), CcsPythonExecutorThread (listener thread)
\* and CcsExecutionResult (handle), with the remote interpreter as the
\* environment that fills the socket's receive stream.
EXTENDS Integers, Sequences, FiniteSets, TLC

\* ------------------------------------------------------------------ bounds
\* Number of messages the remote sends after its greeting.
MaxMsgs == 2
\* Number of submissions (threads) made on the client, the constructor's included.
MaxSubs == 2
\* Number of setup commands given to syncScriptExecution.
MaxSetup == 2
\* Longest time a sleep(0.25) of TS8Stage takes, in quarters of a second.
MaxSleep == 2
\* Number of commands sent through a SubsystemDecorator.
MaxCalls == 2
\* Number of lines of the subsystem configuration file.
MaxLines == 3
\* Number of reads of a listener that return nothing.
MaxEmptyReads == 2

\* --------------------------------------------------------- program constants
\* sc.recv(1024): the largest chunk one read returns.
RecvSize == 1024

\* ------------------------------------------------------------ text helpers
\* s[i] of a Python string.
CharAt(s, i) == SubSeq(s, i, i)

\* s[i:i+len(t)] == t
StartsAt(s, i, t) == /\ i >= 1
                     /\ i + Len(t) - 1 <= Len(s)
                     /\ SubSeq(s, i, i + Len(t) - 1) = t

\* s.find(t, i - 1) + 1: the first place at or after i where t occurs in
\* s, 0 when there is none.
Find(s, t, i) ==
    LET hits == {j \in i..(Len(s) - Len(t) + 1) : SubSeq(s, j, j + Len(t) - 1) = t}
    IN  IF hits = {} THEN 0
        ELSE CHOOSE j \in hits : \A h \in hits : j <= h

\* Python's `t in s` for strings.
Contains(s, t) == Find(s, t, 1) # 0

\* s.find(t) + 1, for a t that occurs in s.
FirstIndex(s, t) == Find(s, t, 1)

\* s.split('\n')
RECURSIVE Split(_)
Split(s) == LET i == Find(s, "\n", 1)
            IN  IF i = 0
                THEN <<s>>
                ELSE <<SubSeq(s, 1, i - 1)>> \o Split(SubSeq(s, i + 1, Len(s)))

\* Mutant of RemoveNewlines: the name is passed on as given.
RemoveNewlines_Keeps(s) == s

\* s.replace("\n", "")
RECURSIVE RemoveNewlines(_)
RemoveNewlines(s) == LET i == Find(s, "\n", 1)
                     IN  IF i = 0
                         THEN s
                         ELSE SubSeq(s, 1, i - 1) \o RemoveNewlines(SubSeq(s, i + 1, Len(s)))

\* s[-1]
Last(s) == s[Len(s)]

\* "".join(parts)
RECURSIVE Join(_)
Join(parts) == IF parts = <<>> THEN "" ELSE Head(parts) \o Join(Tail(parts))

\* "\n".join(lines)
RECURSIVE JoinLines(_)
JoinLines(lines) == IF Len(lines) = 0 THEN ""
                    ELSE IF Len(lines) = 1 THEN lines[1]
                    ELSE lines[1] \o "\n" \o JoinLines(Tail(lines))

\* The characters \w matches (ASCII letters, digits, underscore).
WordChars == {"a","b","c","d","e","f","g","h","i","j","k","l","m",
              "n","o","p","q","r","s","t","u","v","w","x","y","z",
              "A","B","C","D","E","F","G","H","I","J","K","L","M",
              "N","O","P","Q","R","S","T","U","V","W","X","Y","Z",
              "0","1","2","3","4","5","6","7","8","9","_"}

\* Every character of s is matched by \w.
IsWord(s) == \A k \in 1..Len(s) : CharAt(s, k) \in WordChars

\* The regular expression's `.`: any one character but a newline.
AnyCharAt(s, i) == i >= 1 /\ i <= Len(s) /\ CharAt(s, i) # "\n"

\* re.compile(r'.*java.lang.\w*Exception.*').match(item) for an item that
\* holds no newline: "java", any character, "lang", any character, a run of
\* word characters, "Exception", anywhere in the item.
ReMatch(item) ==
    \E p \in 1..Len(item) :
        /\ StartsAt(item, p, "java")
        /\ AnyCharAt(item, p + 4)
        /\ StartsAt(item, p + 5, "lang")
        /\ AnyCharAt(item, p + 9)
        /\ \E q \in (p + 10)..Len(item) :
               /\ StartsAt(item, q, "Exception")
               /\ IsWord(SubSeq(item, p + 10, q - 1))

\* The items of lines that the listener's scan loop appends, in order.
RECURSIVE ScanLines(_)
ScanLines(lines) == IF lines = <<>>
                    THEN <<>>
                    ELSE (IF ReMatch(Head(lines)) THEN <<Head(lines)>> ELSE <<>>)
                         \o ScanLines(Tail(lines))

\* The completion marker a listener looks for.
DoneMarker(id) == "doneExecution:" \o id

\* Mutant of Frame: no newline between the content and the endContent line.
Frame_MissingNewline(id, content) == "startContent:" \o id \o "\n" \o content
                                     \o "endContent:" \o id \o "\n"

\* The text executePythonContent sends for content under thread_id id.
Frame(id, content) == "startContent:" \o id \o "\n" \o content
                      \o "\nendContent:" \o id \o "\n"

\* ------------------------------------------------------------------ inputs
\* str(uuid.uuid4()) of the n-th CcsPythonExecutorThread: pairwise different.
Ids == <<"abc123", "def456", "0a1b2c", "7f7f7f", "e4e4e4", "9d8c7b", "556677", "c0ffee">>

\* The constructor's name argument: <<>> is None, <<n>> is the name n.
Names == {<<>>, <<"ts8\nbench">>}

\* The statements the calling script submits.
Statements == {"a = 1\nprint(a+1)"}

\* What the remote interpreter sends once a client has connected, as the
\* segments the network delivers it in.
Greetings == { <<"CCS console\n">>, <<"ConnectionRefused\n">> }

\* What the remote interpreter may send after the greeting, each message as
\* the segments the network delivers it in; a read returns one or more
\* whole segments.
Messages == { <<"2\n">>,
              <<"doneExecution:", "abc123\n">>,
              <<"doneExecution:def456\n">>,
              <<"java.lang.NullPointerException at Foo.bar\n">>,
              <<"see java/lang/Exception\n">> }

\* All sequences of at most n messages.
RECURSIVE MsgSeqs(_)
MsgSeqs(n) == IF n = 0
              THEN {<<>>}
              ELSE LET shorter == MsgSeqs(n - 1)
                   IN  shorter \cup {Append(t, m) : t \in shorter, m \in Messages}

\* What the remote sends over the lifetime of a connection: a greeting,
\* then at most MaxMsgs messages.
Transcripts == {<<g>> \o t : g \in Greetings, t \in MsgSeqs(MaxMsgs)}

\* The segments of a sequence of messages, in order.
RECURSIVE Segments(_)
Segments(msgs) == IF msgs = <<>> THEN <<>> ELSE Head(msgs) \o Segments(Tail(msgs))

\* ------------------------------------------------------------------- state
VARIABLES
    name,       \* the name argument of CcsJythonInterpreter(name, ...)
    pc,         \* where the calling script is: new, greeting, send, poll, idle,
                \* failed (ended by an exception),
                \* script (in syncScriptExecution, between two submissions)
    op,         \* the call in progress: none, ctor, sync, async, get, script, and
                \* setup (the syncExecution of a setup command)
    cur,        \* index in th of the thread the call in progress works on
    connectionResult, \* what _socket_connection's recv returned, <<>> before it
    sock,       \* socket_connection's receive stream: segments not yet read
    sent,       \* what was written with socket_connection.send, one entry per call
    th,         \* the CcsPythonExecutorThread objects, in creation order
    handles,    \* the CcsExecutionResult objects returned to the script (indices in th)
    stdout,     \* what was written to sys.stdout, one entry per write
    returned,   \* what the script's getOutput() calls returned so far: handle and text
    raised,     \* the exception the last failed call raised, <<>> when none
    connects,   \* number of sc.connect calls
    answered,   \* number of written frames the remote interpreter has answered
    script,     \* the syncScriptExecution call in progress, <<>> when none
    closed,     \* the peer has closed the connection
    axisStatus, \* TS8Stage: _ReplyHandler._axisStatus, the latest status of each axis
    commands,   \* TS8Stage: what _SubsystemHandle.sendCommand sent, in order
    clock,      \* TS8Stage: datetime.now(), in quarters of a second
    stageCall,  \* TS8Stage: the Stage method call in progress, <<>> when none
    stageResult, \* TS8Stage: how the last Stage method call ended, <<>> before it
    container,  \* ccs_scripting_tools: the CcsSubsystems container, <<>> when none
    logged,     \* ccs_scripting_tools: the lines the logger wrote at INFO, in order
    forwarded,  \* ccs_scripting_tools: the calls the wrapped subsystem received
    response,   \* ccs_scripting_tools: how the last decorator call ended
    environ,    \* ccsTools: os.environ's LCATR_CCS_SUBSYSTEM_CONFIG, <<>> when unset
    configFile, \* ccsTools: the lines of the file ccs_subsystems.cfg
    commandList, \* ccsTools: how the last set_ccs_subsystems call ended, <<>> before it
    ts8,        \* ccs_python_proxies: the object CCS.attachSubsystem returned, <<>> before
    result,     \* ccs_python_proxies: the commands given to ts8 and what getResult()
                \* gave for each, in call order
    producer,   \* ccsTools: the ccsProducer call and where it is, <<>> when none
    logFile,    \* ccsTools: the file <jobName>.log, <<>> as long as it was not written
    handler,    \* TS8Stage: the attributes of the _ReplyHandler object but _axisStatus
    delivered,  \* TS8Stage: the latest message the status bus delivered, by type and axis
    got         \* TS8Stage: how the last getter call on the reply handler ended

\* The state of TS8Stage.py, of ccs_scripting_tools.py, of ccsTools.py and
\* of ccs_python_proxies.py.
stageVars == <<axisStatus, commands, clock, stageCall, stageResult>>
toolVars == <<container, logged, forwarded, response>>
setupVars == <<environ, configFile, commandList>>
proxyVars == <<ts8, result>>
producerVars == <<producer, logFile>>
handlerVars == <<handler, delivered, got>>

\* The state of the modules other than PythonBinding.py, which no step of
\* the bridge touches.
outside == <<stageVars, toolVars, setupVars, proxyVars, producerVars, handlerVars>>

\* No Stage object was made and the clock is not looked at.
NoStage == /\ axisStatus = <<>>
           /\ commands = <<>>
           /\ clock = 0
           /\ stageCall = <<>>
           /\ stageResult = <<>>

\* No CcsSubsystems container was made.
NoTools == /\ container = <<>>
           /\ logged = <<>>
           /\ forwarded = <<>>
           /\ response = <<>>

\* set_ccs_subsystems was not called and no configuration is given.
NoSetup == /\ environ = <<>>
           /\ configFile = <<>>
           /\ commandList = <<>>

\* No subsystem was attached through ccs_python_proxies.
NoProxy == /\ ts8 = <<>>
           /\ result = <<>>

\* ccsProducer was not called.
NoProducer == /\ producer = <<>>
              /\ logFile = <<>>

\* No _ReplyHandler is looked at apart from its _axisStatus.
NoHandler == /\ handler = <<>>
             /\ delivered = <<>>
             /\ got = <<>>

vars == <<name, pc, op, cur, connectionResult, sock, sent, th, handles, stdout,
          returned, raised, connects, answered, script, closed, outside>>

\* The state before the constructor runs, for a remote whose receive
\* stream is one of streams.
InitWith(streams) == /\ name \in Names
                     /\ pc = "new"
                     /\ op = "none"
                     /\ cur = 0
                     /\ connectionResult = <<>>
                     /\ sock \in streams
                     /\ sent = <<>>
                     /\ th = <<>>
                     /\ handles = {}
                     /\ stdout = <<>>
                     /\ returned = {}
                     /\ raised = <<>>
                     /\ connects = 0
                     /\ answered = 0
                     /\ script = <<>>
                     /\ closed = FALSE
                     /\ NoStage
                     /\ NoTools
                     /\ NoSetup
                     /\ NoProxy
                     /\ NoProducer
                     /\ NoHandler

Init == InitWith({Segments(t) : t \in Transcripts})

\* The objects a CcsPythonExecutorThread holds after __init__ and the first
\* statement of executePythonContent; content is executePythonContent's
\* argument and reads records the chunks recv returned to the listener.
NewThread(id, c) == [id |-> id, running |-> TRUE, lpc |-> "boot",
                     execution_output |-> "", java_exceptions |-> <<>>,
                     content |-> c, reads |-> <<>>]

\* print(...): one line on sys.stdout, written by the main thread.
ConsoleLine(text) == Append(stdout, [by |-> 0, text |-> text \o "\n"])

\* Mutant of StartThread: the listener is started and the call goes on to
\* wait for it without writing the frame.
StartThread_SkipsSend(c, o) == /\ th' = Append(th, NewThread(Ids[Len(th) + 1], c))
                               /\ cur' = Len(th) + 1
                               /\ op' = IF o = "async" THEN "get" ELSE o
                               /\ pc' = "poll"

\* sendInterpreterServer up to output_thread.start(): a new thread object
\* with a fresh id, running set, its listener started.
StartThread(c, o) == /\ th' = Append(th, NewThread(Ids[Len(th) + 1], c))
                     /\ cur' = Len(th) + 1
                     /\ op' = o
                     /\ pc' = "send"

\* ----------------------------------------------------- CcsJythonInterpreter
\* Mutant of Refused: the greeting is compared with the token, not searched.
Refused_ExactMatch(received) == received = "ConnectionRefused"

\* _socket_connection's test of the greeting.
Refused(received) == Contains(received, "ConnectionRefused")

\* __init__, sc.connect succeeds.
Connect == /\ pc = "new"
           /\ connects' = connects + 1
           /\ pc' = "greeting"
           /\ UNCHANGED <<outside, closed, answered, script, name, op, cur, connectionResult, sock, sent, th, handles,
                          stdout, returned, raised>>

\* __init__, sc.connect raises: the except clause prints and raises CcsException.
ConnectFail == /\ pc = "new"
               /\ connects' = connects + 1
               /\ stdout' = ConsoleLine("[Errno 111] Connection refused")
               /\ raised' = <<"Could not connect to CCS Python Interpreter on host:port">>
               /\ pc' = "failed"
               /\ UNCHANGED <<outside, closed, answered, script, name, op, cur, connectionResult, sock, sent, th, handles,
                              returned>>

\* _socket_connection's sc.recv(1024) returning the first k segments, the
\* ConnectionRefused test, and the rest of __init__ up to the start of the
\* initializeInterpreter submission.
RecvGreeting(k) ==
    /\ pc = "greeting"
    /\ k \in 1..Len(sock)
    /\ LET received == Join(SubSeq(sock, 1, k))
       IN  /\ Len(received) <= RecvSize
           /\ sock' = SubSeq(sock, k + 1, Len(sock))
           /\ connectionResult' = <<received>>
           /\ IF Refused(received)
              THEN /\ stdout' = ConsoleLine("'Connection Refused'")
                   /\ raised' = <<"Could not connect to CCS Python Interpreter on host:port">>
                   /\ pc' = "failed"
                   /\ UNCHANGED <<op, cur, th>>
              ELSE /\ stdout' = ConsoleLine("Connected to CCS Python interpreter on host:port")
                   /\ raised' = raised
                   /\ IF name = <<>>
                      THEN /\ pc' = "idle"
                           /\ UNCHANGED <<op, cur, th>>
                      ELSE StartThread("initializeInterpreter " \o RemoveNewlines(name[1]),
                                       "ctor")
    /\ UNCHANGED <<outside, closed, answered, script, name, sent, handles, returned, connects>>

\* Mutant of aSyncExecution: the call is refused while a listener is
\* still running.
aSyncExecution_OneInFlight(statement) ==
    /\ pc = "idle"
    /\ Len(th) < MaxSubs
    /\ \A i \in 1..Len(th) : ~th[i].running
    /\ StartThread(statement, "async")
    /\ UNCHANGED <<outside, closed, answered, script, name, connectionResult, sock, sent,
                   handles, stdout, returned, raised, connects>>

\* aSyncExecution(statement) up to the start of the listener.
aSyncExecution(statement) ==
    /\ pc = "idle"
    /\ Len(th) < MaxSubs
    /\ StartThread(statement, "async")
    /\ UNCHANGED <<outside, closed, answered, script, name, connectionResult, sock, sent, handles, stdout, returned, raised, connects>>

\* syncExecution(statement) up to the start of the listener.
syncExecution(statement) ==
    /\ pc = "idle"
    /\ Len(th) < MaxSubs
    /\ StartThread(statement, "sync")
    /\ UNCHANGED <<outside, closed, answered, script, name, connectionResult, sock, sent, handles, stdout, returned, raised, connects>>

\* Mutant of Send: syncExecution returns the handle right after the write.
Send_SyncReturnsAtOnce ==
    /\ pc = "send"
    /\ sent' = Append(sent, Frame(th[cur].id, th[cur].content))
    /\ IF op \in {"async", "sync"}
       THEN /\ pc' = "idle"
            /\ op' = "none"
            /\ handles' = handles \cup {cur}
       ELSE /\ pc' = "poll"
            /\ UNCHANGED <<op, handles>>
    /\ UNCHANGED <<outside, closed, answered, script, name, cur, connectionResult, sock, th,
                   stdout, returned, raised, connects>>

\* executePythonContent from the send on: one write of the framed content;
\* aSyncExecution returns the handle, the others go on to result.getOutput().
Send == /\ pc = "send"
        /\ sent' = Append(sent, Frame(th[cur].id, th[cur].content))
        /\ IF op = "async"
           THEN /\ pc' = "idle"
                /\ op' = "none"
                /\ handles' = handles \cup {cur}
           ELSE /\ pc' = "poll"
                /\ UNCHANGED <<op, handles>>
        /\ UNCHANGED <<outside, closed, answered, script, name, cur, connectionResult, sock, th, stdout, returned, raised,
                       connects>>

\* ------------------------------------------------------- CcsExecutionResult
\* Mutant of getOutput: the call returns the output at once, whatever
\* running is.
getOutput_ReturnsAtOnce(h) ==
    /\ pc = "idle"
    /\ h \in handles
    /\ returned' = returned \cup {[h |-> h, text |-> th[h].execution_output]}
    /\ UNCHANGED <<outside, closed, answered, script, name, pc, op, cur, connectionResult, sock,
                   sent, th, handles, stdout, raised, connects>>

\* The script calls getOutput() on a handle it holds: the first test of
\* thread.running, which returns at once when the flag is already false.
getOutput(h) ==
    /\ pc = "idle"
    /\ h \in handles
    /\ IF th[h].running
       THEN /\ pc' = "poll"
            /\ op' = "get"
            /\ cur' = h
            /\ UNCHANGED returned
       ELSE /\ returned' = returned \cup {[h |-> h, text |-> th[h].execution_output]}
            /\ UNCHANGED <<pc, op, cur>>
    /\ UNCHANGED <<outside, closed, answered, script, name, connectionResult, sock, sent, th, handles, stdout, raised, connects>>

\* Mutant of Poll: getOutput() returns after one sleep, whatever running is.
Poll_ReturnsEarly ==
    /\ pc = "poll"
    /\ pc' = IF op = "setup" THEN "script" ELSE "idle"
    /\ op' = IF op = "setup" THEN "script" ELSE "none"
    /\ returned' = IF op = "get"
                   THEN returned \cup {[h |-> cur, text |-> th[cur].execution_output]}
                   ELSE returned
    /\ handles' = IF op \in {"sync", "script"} THEN handles \cup {cur} ELSE handles
    /\ script' = IF op = "script" THEN <<>> ELSE script
    /\ UNCHANGED <<outside, closed, answered, name, cur, connectionResult, sock, sent, th, stdout,
                   raised, connects>>

\* getOutput()'s loop finds thread.running false after a sleep and returns;
\* syncExecution then returns the handle, __init__ returns the client,
\* syncScriptExecution goes on with its loop or returns the handle.
Poll == /\ pc = "poll"
        /\ ~th[cur].running
        /\ pc' = IF op = "setup" THEN "script" ELSE "idle"
        /\ op' = IF op = "setup" THEN "script" ELSE "none"
        /\ returned' = IF op = "get"
                       THEN returned \cup {[h |-> cur, text |-> th[cur].execution_output]}
                       ELSE returned
        /\ handles' = IF op \in {"sync", "script"} THEN handles \cup {cur} ELSE handles
        /\ script' = IF op = "script" THEN <<>> ELSE script
        /\ UNCHANGED <<outside, closed, answered, name, cur, connectionResult, sock, sent, th, stdout,
                       raised, connects>>

\* -------------------------------------------------- CcsPythonExecutorThread
\* listenToSocketOutput up to the loop: execution_output = "". The
\* statement touches the thread object alone and no other thread reads
\* execution_output while running is true, so it is taken together with
\* the first pass of the loop.
Started(t) == IF t.lpc = "boot"
              THEN [t EXCEPT !.execution_output = "", !.lpc = "loop"]
              ELSE t

\* Mutant of AfterChunk: the marker is not looked for.
AfterChunk_NoMarkerTest(t, output) ==
    [t EXCEPT !.java_exceptions = @ \o ScanLines(Split(output)),
              !.reads = Append(@, output),
              !.execution_output = @ \o output]

\* Mutant of AfterChunk: the marker chunk is appended to the output too.
AfterChunk_KeepsMarkerChunk(t, output) ==
    LET scanned == [t EXCEPT !.java_exceptions = @ \o ScanLines(Split(output)),
                             !.reads = Append(@, output),
                             !.execution_output = @ \o output]
    IN  IF ~Contains(output, DoneMarker(t.id))
        THEN scanned
        ELSE [scanned EXCEPT !.running = FALSE, !.lpc = "done"]

\* Mutant of AfterChunk: the marker is looked for without the thread's id.
AfterChunk_AnyMarker(t, output) ==
    LET scanned == [t EXCEPT !.java_exceptions = @ \o ScanLines(Split(output)),
                             !.reads = Append(@, output)]
    IN  IF ~Contains(output, "doneExecution:")
        THEN [scanned EXCEPT !.execution_output = @ \o output]
        ELSE [scanned EXCEPT !.running = FALSE, !.lpc = "done"]

\* Mutant of AfterChunk: a chunk is put in front of the output.
AfterChunk_Prepends(t, output) ==
    LET scanned == [t EXCEPT !.java_exceptions = @ \o ScanLines(Split(output)),
                             !.reads = Append(@, output)]
    IN  IF ~Contains(output, DoneMarker(t.id))
        THEN [scanned EXCEPT !.execution_output = output \o @]
        ELSE [scanned EXCEPT !.running = FALSE, !.lpc = "done"]

\* Mutant of AfterChunk: only the chunks that are kept are scanned.
AfterChunk_ScanOnlyKept(t, output) ==
    LET seen == [t EXCEPT !.reads = Append(@, output)]
    IN  IF ~Contains(output, DoneMarker(t.id))
        THEN [seen EXCEPT !.java_exceptions = @ \o ScanLines(Split(output)),
                          !.execution_output = @ \o output]
        ELSE [seen EXCEPT !.running = FALSE, !.lpc = "done"]

\* The thread object after one pass of the loop body over the chunk output.
AfterChunk(t, output) ==
    LET scanned == [t EXCEPT !.java_exceptions = @ \o ScanLines(Split(output)),
                             !.reads = Append(@, output)]
    IN  IF ~Contains(output, DoneMarker(t.id))
        THEN [scanned EXCEPT !.execution_output = @ \o output]
        ELSE [scanned EXCEPT !.running = FALSE, !.lpc = "done"]

\* One pass of listenToSocketOutput's loop: recv returns the first k
\* segments; when the pass clears running the loop and the thread end.
ListenerRead(i, k) ==
    /\ i \in 1..Len(th)
    /\ th[i].lpc \in {"boot", "loop"}
    /\ th[i].running
    /\ k \in 1..Len(sock)
    /\ LET output == Join(SubSeq(sock, 1, k))
       IN  /\ Len(output) <= RecvSize
           /\ sock' = SubSeq(sock, k + 1, Len(sock))
           /\ th' = [th EXCEPT ![i] = AfterChunk(Started(th[i]), output)]
           /\ stdout' = IF ~Contains(output, DoneMarker(th[i].id))
                        THEN Append(stdout, [by |-> i, text |-> output])
                        ELSE stdout
    /\ UNCHANGED <<outside, closed, answered, script, name, pc, op, cur, connectionResult, sent, handles, returned, raised,
                   connects>>

\* The steps of a calling script that submits statements of stmts, and of
\* the listener threads.
Step(stmts) == \/ Connect
               \/ ConnectFail
               \/ \E k \in 1..Len(sock) : RecvGreeting(k)
               \/ \E s \in stmts : aSyncExecution(s)
               \/ \E s \in stmts : syncExecution(s)
               \/ Send
               \/ \E h \in handles : getOutput(h)
               \/ Poll
               \/ \E i \in 1..Len(th) : \E k \in 1..Len(sock) : ListenerRead(i, k)

Next == Step(Statements)

Spec == Init /\ [][Next]_vars

\* The bridge with a calling script that submits payloads of many shapes
\* (empty, one line, several lines, a trailing newline, lines that look
\* like frame lines) to a remote that sends its greeting and one message.
FramePayloads == {"", "print(1+1)", "a = 1\nprint(a+1)\n", "x\n\ny",
                  "endContent:\nstartContent:abc123"}

InitFrame == InitWith({Segments(<<g>> \o t) : g \in Greetings, t \in MsgSeqs(1)})

NextFrame == Step(FramePayloads)

SpecFrame == InitFrame /\ [][NextFrame]_vars

\* ------------------------------------------------------- script execution
\* The files syncScriptExecution and aSyncScriptExecution are asked to run.
FileNames == {"acq.py", "missing.py"}

\* open(filename, "r") and fd.read(): <<content>> for a file that can be
\* read, <<>> for one whose open raises IOError.
FileSystem == [f \in FileNames |-> IF f = "acq.py" THEN <<"print(1+1)\n">> ELSE <<>>]

\* The setup commands a calling script passes: the first n of these, for
\* an n of at most MaxSetup.
SetupCommands == <<"a = 1", "b = 2", "c = 3", "d = 4">>

SetupLists == {SubSeq(SetupCommands, 1, n) : n \in 0..MaxSetup}

\* The number of thread objects a calling script that runs script files
\* makes at most: one in the constructor or for a script file run
\* asynchronously, and those of one syncScriptExecution call.
MaxScriptSubs == MaxSetup + 2

\* A listener that is reading the connection: started, not yet ended and
\* in its loop.
Reading(t) == t.lpc \in {"boot", "loop"} /\ t.running

\* Mutant of aSyncScriptExecution: the submission is started before the
\* file is opened.
aSyncScriptExecution_StartsFirst(filename) ==
    /\ pc = "idle"
    /\ Len(th) < MaxScriptSubs
    /\ handles = {}
    /\ IF FileSystem[filename] = <<>>
       THEN /\ raised' = <<"IOError: " \o filename>>
            /\ th' = Append(th, NewThread(Ids[Len(th) + 1], ""))
            /\ pc' = "failed"
            /\ UNCHANGED <<op, cur>>
       ELSE /\ StartThread(FileSystem[filename][1], "async")
            /\ raised' = raised
    /\ UNCHANGED <<outside, closed, answered, script, name, connectionResult, sock, sent,
                   handles, stdout, returned, connects>>

\* aSyncScriptExecution(filename) up to the start of the listener; the
\* open or the read of a file that cannot be read raises before anything
\* else is done, and the exception ends the calling script. The calling
\* script makes the call before it holds any handle.
aSyncScriptExecution(filename) ==
    /\ pc = "idle"
    /\ Len(th) < MaxScriptSubs
    /\ handles = {}
    /\ IF FileSystem[filename] = <<>>
       THEN /\ raised' = <<"IOError: " \o filename>>
            /\ pc' = "failed"
            /\ UNCHANGED <<op, cur, th>>
       ELSE /\ StartThread(FileSystem[filename][1], "async")
            /\ raised' = raised
    /\ UNCHANGED <<outside, closed, answered, script, name, connectionResult, sock, sent,
                   handles, stdout, returned, connects>>

\* syncScriptExecution(filename, setup_commands, verbose) up to its loop.
\* setup_commands holds the commands not yet executed; first, given and
\* quiet record the call for the properties: the index of its first
\* thread object, the commands as given, and whether no listener was
\* reading when the call was made.
syncScriptExecution(filename, setup_commands, verbose) ==
    /\ pc = "idle"
    /\ Len(th) + Len(setup_commands) + 1 <= MaxScriptSubs
    /\ script' = <<[filename |-> filename, setup_commands |-> setup_commands,
                    verbose |-> verbose, first |-> Len(th) + 1,
                    given |-> setup_commands,
                    quiet |-> \A i \in 1..Len(th) : ~Reading(th[i])]>>
    /\ stdout' = IF verbose /\ setup_commands # <<>>
                 THEN ConsoleLine("Executing setup commands for " \o filename)
                 ELSE stdout
    /\ pc' = "script"
    /\ op' = "script"
    /\ UNCHANGED <<outside, closed, answered, name, cur, connectionResult, sock, sent, th,
                   handles, returned, raised, connects>>

\* Mutant of ScriptSetup: the commands are taken from the end of the tuple.
ScriptSetup_LastFirst ==
    /\ pc = "script"
    /\ script[1].setup_commands # <<>>
    /\ LET command == Last(script[1].setup_commands)
       IN  /\ stdout' = IF script[1].verbose THEN ConsoleLine(command) ELSE stdout
           /\ StartThread(command, "setup")
    /\ script' = <<[script[1] EXCEPT !.setup_commands = SubSeq(@, 1, Len(@) - 1)]>>
    /\ UNCHANGED <<outside, closed, answered, name, connectionResult, sock, sent, handles,
                   returned, raised, connects>>

\* One pass of syncScriptExecution's loop up to the start of the listener
\* of self.syncExecution(command).
ScriptSetup ==
    /\ pc = "script"
    /\ script[1].setup_commands # <<>>
    /\ LET command == Head(script[1].setup_commands)
       IN  /\ stdout' = IF script[1].verbose THEN ConsoleLine(command) ELSE stdout
           /\ StartThread(command, "setup")
    /\ script' = <<[script[1] EXCEPT !.setup_commands = Tail(@)]>>
    /\ UNCHANGED <<outside, closed, answered, name, connectionResult, sock, sent, handles,
                   returned, raised, connects>>

\* Mutant of ScriptOpen: the file is opened before the loop is through.
ScriptOpen_BeforeSetup ==
    /\ pc = "script"
    /\ stdout' = IF script[1].verbose
                 THEN ConsoleLine("Executing " \o script[1].filename \o "...")
                 ELSE stdout
    /\ IF FileSystem[script[1].filename] = <<>>
       THEN /\ raised' = <<"IOError: " \o script[1].filename>>
            /\ pc' = "failed"
            /\ op' = "none"
            /\ script' = <<>>
            /\ UNCHANGED <<cur, th>>
       ELSE /\ script[1].setup_commands = <<>>
            /\ StartThread(FileSystem[script[1].filename][1], "script")
            /\ UNCHANGED <<raised, script>>
    /\ UNCHANGED <<outside, closed, answered, name, connectionResult, sock, sent, handles,
                   returned, connects>>

\* syncScriptExecution after its loop: the file is opened and read and its
\* content submitted; a file that cannot be read ends the call with IOError.
ScriptOpen ==
    /\ pc = "script"
    /\ script[1].setup_commands = <<>>
    /\ stdout' = IF script[1].verbose
                 THEN ConsoleLine("Executing " \o script[1].filename \o "...")
                 ELSE stdout
    /\ IF FileSystem[script[1].filename] = <<>>
       THEN /\ raised' = <<"IOError: " \o script[1].filename>>
            /\ pc' = "failed"
            /\ op' = "none"
            /\ script' = <<>>
            /\ UNCHANGED <<cur, th>>
       ELSE /\ StartThread(FileSystem[script[1].filename][1], "script")
            /\ UNCHANGED <<raised, script>>
    /\ UNCHANGED <<outside, closed, answered, name, connectionResult, sock, sent, handles,
                   returned, connects>>

\* ------------------------------------------------------ remote interpreter
\* The id of a written frame: what follows startContent: on its first line.
FrameId(text) == SubSeq(text, Len("startContent:") + 1, Find(text, "\n", 1) - 1)

\* What a remote interpreter that answers each frame in turn sends for the
\* frame of id: the output of the execution, if any, then the marker line.
Replies(id) == { <<DoneMarker(id) \o "\n">>,
                 <<"out of " \o id \o "\n", DoneMarker(id) \o "\n">> }

\* The remote interpreter answers the next written frame.
RemoteReply ==
    /\ ~closed
    /\ answered < Len(sent)
    /\ \E reply \in Replies(FrameId(sent[answered + 1])) : sock' = sock \o reply
    /\ answered' = answered + 1
    /\ UNCHANGED <<outside, closed, script, name, pc, op, cur, connectionResult, sent, th,
                   handles, stdout, returned, raised, connects>>

\* The steps of the listener threads and of a remote that answers frames.
Background ==
    \/ \E i \in 1..Len(th) : \E k \in 1..Len(sock) : ListenerRead(i, k)
    \/ RemoteReply

\* The bridge with a calling script that runs script files, and a remote
\* that sends its greeting and then answers each frame in turn.
InitRemote == InitWith({Segments(<<g>>) : g \in Greetings})

NextScript ==
    \/ Connect
    \/ ConnectFail
    \/ \E k \in 1..Len(sock) : RecvGreeting(k)
    \/ \E f \in FileNames : aSyncScriptExecution(f)
    \/ \E f \in FileNames : \E l \in SetupLists : \E v \in BOOLEAN :
           syncScriptExecution(f, l, v)
    \/ ScriptSetup
    \/ ScriptOpen
    \/ Send
    \/ Poll
    \/ Background

SpecScript == InitRemote /\ [][NextScript]_vars

\* ---------------------------------------------------------- sequential use
\* getOutput() has returned for every handle the calling script was given.
AwaitedAll == \A h \in handles : \E r \in returned : r.h = h

\* The bridge with a calling script that makes a submission only when
\* getOutput() has returned for every handle it holds, and a remote that
\* sends its greeting and then answers each frame in turn.
NextSeq == \/ Connect
           \/ ConnectFail
           \/ \E k \in 1..Len(sock) : RecvGreeting(k)
           \/ AwaitedAll /\ \E s \in Statements : aSyncExecution(s)
           \/ AwaitedAll /\ \E s \in Statements : syncExecution(s)
           \/ Send
           \/ \E h \in handles : getOutput(h)
           \/ Poll
           \/ Background

SpecSeq == InitRemote /\ [][NextSeq]_vars

\* The same under fair scheduling: a call that is under way goes on (the
\* frame is written, the polling loop of getOutput() comes round again),
\* the listener threads and the remote are scheduled as long as they have
\* something to do. No read fails.
SpecSeqFair == /\ InitRemote
               /\ [][NextSeq]_vars
               /\ WF_vars(Send)
               /\ WF_vars(Poll)
               /\ WF_vars(Background)

\* ------------------------------------------------------------ read failure
\* One pass of listenToSocketOutput's loop in which recv raises: the except
\* clause prints the error and raises CcsException, which nothing in the
\* thread catches, so the thread ends there; running is left as it is.
ReadFail(i) ==
    /\ i \in 1..Len(th)
    /\ Reading(th[i])
    /\ th' = [th EXCEPT ![i] = [Started(th[i]) EXCEPT !.lpc = "raised"]]
    /\ stdout' = Append(stdout, [by |-> i, text |-> "[Errno 104] Connection reset by peer\n"])
    /\ UNCHANGED <<outside, closed, answered, script, name, pc, op, cur, connectionResult, sock,
                   sent, handles, returned, raised, connects>>

\* The bridge with a calling script that submits statements as it likes
\* and a remote that sends its greeting and then answers each frame in turn.
NextRemote == \/ Connect
              \/ ConnectFail
              \/ \E k \in 1..Len(sock) : RecvGreeting(k)
              \/ \E s \in Statements : aSyncExecution(s)
              \/ \E s \in Statements : syncExecution(s)
              \/ Send
              \/ \E h \in handles : getOutput(h)
              \/ Poll
              \/ Background

SpecRemote == InitRemote /\ [][NextRemote]_vars

\* The same on a connection whose reads may fail. The polling loop of
\* getOutput() goes on as long as it is not left, the listener threads and
\* the remote are scheduled as long as they have something to do.
NextFail == \/ NextRemote
            \/ \E i \in 1..Len(th) : ReadFail(i)

SpecFail == /\ InitRemote
            /\ [][NextFail]_vars
            /\ WF_vars(Send)
            /\ WF_vars(Poll)
            /\ WF_vars(Background)

\* --------------------------------------------------------- closed by peer
\* The remote closes the connection: it sends nothing more, what it sent
\* before can still be read.
PeerClose ==
    /\ pc \notin {"new", "greeting", "failed"}
    /\ ~closed
    /\ closed' = TRUE
    /\ UNCHANGED <<outside, answered, script, name, pc, op, cur, connectionResult, sock,
                   sent, th, handles, stdout, returned, raised, connects>>

\* The number of reads of t's listener that returned nothing.
EmptyReads(t) == Len(SelectSeq(t.reads, LAMBDA c : c = ""))

\* Mutant of ListenerReadEmpty: the end of the stream ends the listener.
ListenerReadEmpty_EndsListener(i) ==
    /\ i \in 1..Len(th)
    /\ Reading(th[i])
    /\ closed
    /\ sock = <<>>
    /\ EmptyReads(th[i]) < MaxEmptyReads
    /\ th' = [th EXCEPT ![i] = [Started(th[i]) EXCEPT !.reads = Append(@, ""),
                                                      !.running = FALSE,
                                                      !.lpc = "done"]]
    /\ UNCHANGED <<outside, closed, answered, script, name, pc, op, cur, connectionResult,
                   sock, sent, handles, stdout, returned, raised, connects>>

\* One pass of listenToSocketOutput's loop on a connection the peer has
\* closed, with nothing left to read: recv returns '', which goes through
\* the same scan and test as any chunk; sys.stdout.write('') writes
\* nothing.
ListenerReadEmpty(i) ==
    /\ i \in 1..Len(th)
    /\ Reading(th[i])
    /\ closed
    /\ sock = <<>>
    /\ EmptyReads(th[i]) < MaxEmptyReads
    /\ th' = [th EXCEPT ![i] = AfterChunk(Started(th[i]), "")]
    /\ UNCHANGED <<outside, closed, answered, script, name, pc, op, cur, connectionResult,
                   sock, sent, handles, stdout, returned, raised, connects>>

\* The bridge with a calling script that submits statements as it likes
\* and a remote that answers each frame in turn until it closes the
\* connection.
NextClosed == \/ NextRemote
              \/ PeerClose
              \/ \E i \in 1..Len(th) : ListenerReadEmpty(i)

SpecClosed == InitRemote /\ [][NextClosed]_vars

\* ================================================================ TS8Stage
\* The state of PythonBinding.py.
bridgeVars == <<name, pc, op, cur, connectionResult, sock, sent, th, handles, stdout,
                returned, raised, connects, answered, script, closed>>

\* No CcsJythonInterpreter was made.
NoClient == /\ name = <<>>
            /\ pc = "new"
            /\ op = "none"
            /\ cur = 0
            /\ connectionResult = <<>>
            /\ sock = <<>>
            /\ sent = <<>>
            /\ th = <<>>
            /\ handles = {}
            /\ stdout = <<>>
            /\ returned = {}
            /\ raised = <<>>
            /\ connects = 0
            /\ answered = 0
            /\ script = <<>>
            /\ closed = FALSE

\* The axis objects of the module: maxTravel in tenths of a millimetre,
\* maxSpeed in millimetres per second.
X == [class |-> "_Axis", name |-> "X", index |-> 0, maxTravel |-> 4800, maxSpeed |-> 20]
Y == [class |-> "_Axis", name |-> "Y", index |-> 1, maxTravel |-> 3780, maxSpeed |-> 20]
Z == [class |-> "_Axis", name |-> "Z", index |-> 2, maxTravel |-> 565, maxSpeed |-> 10]

AxisNames == {"X", "Y", "Z"}

\* An object that is not an axis object: the name of an axis.
NotAnAxis == [class |-> "str", value |-> "X"]

\* _checkAxis(ax) does not raise.
IsAxis(ax) == ax.class = "_Axis"

\* Positions are in hundredths of a millimetre, times in milliseconds.
\* The 0.01 mm of waitForStop's first loop.
Tolerance == 1
\* sleep(0.25)
SleepTime == 250
\* The 2.0 seconds waitForStop adds to its timeout.
Grace == 2000

\* abs(x)
Abs(x) == IF x < 0 THEN 0 - x ELSE x

\* ax.maxTravel / ax.maxSpeed, in milliseconds.
HomeTimeout(ax) == (ax.maxTravel * 100) \div ax.maxSpeed

\* The axis status messages the worker subsystem publishes.
StatusValues == {[position |-> p, moving |-> m] : p \in {0, 1, 2}, m \in BOOLEAN}

\* The arguments the calling script gives to waitForStop and to home.
WaitArgs == {<<ax, 0, t>> : ax \in {X, Y, NotAnAxis}, t \in {0, 250}}
HomeArgs == {<<>>, <<X>>, <<Y, X>>, <<NotAnAxis>>, <<Z, NotAnAxis>>}

\* How a Stage method call ended, with what the call had sent and, for
\* waitForStop, the status it had fetched last.
Ended(method, args, outcome, cmds, status) ==
    <<[method |-> method, args |-> args, outcome |-> outcome, commands |-> cmds,
       status |-> status]>>

\* The call self.waitForStop(*args) up to the first loop, made by caller
\* (the script, or home with its arguments homeArgs and axes left to do)
\* at time now, when the call in progress has sent cmds:
\* the binding of the arguments to (axis, targetPosition, timeout),
\* _checkAxis, the deadline and the first getAxisStatus.
CallWaitForStop(args, caller, homeArgs, axes, cmds, now) ==
    IF Len(args) # 3
    THEN /\ stageResult' = Ended(caller, IF caller = "home" THEN homeArgs ELSE args,
                                 "TypeError", cmds, <<>>)
         /\ stageCall' = <<>>
    ELSE IF ~IsAxis(args[1])
    THEN /\ stageResult' = Ended(caller, IF caller = "home" THEN homeArgs ELSE args,
                                 "ValueError", cmds, <<>>)
         /\ stageCall' = <<>>
    ELSE /\ stageResult' = <<>>
         /\ stageCall' = <<[method |-> caller, args |-> IF caller = "home" THEN homeArgs ELSE args,
                            axes |-> axes, loop |-> "near",
                            axis |-> args[1], targetPosition |-> args[2],
                            deadline |-> now + args[3] + Grace,
                            status |-> axisStatus[args[1].name]]>>

\* The calling script calls stage.waitForStop(*args); the clock is read
\* from the start of the call.
waitForStop(args) ==
    /\ stageCall = <<>>
    /\ clock' = 0
    /\ commands' = <<>>
    /\ CallWaitForStop(args, "waitForStop", <<>>, <<>>, <<>>, 0)
    /\ UNCHANGED <<bridgeVars, toolVars, setupVars, proxyVars, producerVars, handlerVars, axisStatus>>

\* The calling script calls stage.home(*axes).
home(axes) ==
    /\ stageCall = <<>>
    /\ clock' = 0
    /\ commands' = <<>>
    /\ stageResult' = <<>>
    /\ stageCall' = <<[method |-> "home", args |-> axes, axes |-> axes, loop |-> "for"]>>
    /\ UNCHANGED <<bridgeVars, toolVars, setupVars, proxyVars, producerVars, handlerVars, axisStatus>>

\* One pass of home's loop up to the first loop of waitForStop: _checkAxis,
\* the timeout, the homeAxis command, and the call self.waitForStop(ax,
\* timeout); after the last axis home returns.
HomeLoop ==
    /\ stageCall # <<>>
    /\ stageCall[1].loop = "for"
    /\ LET c == stageCall[1]
       IN  IF c.axes = <<>>
           THEN /\ stageResult' = Ended("home", c.args, "returned", commands, <<>>)
                /\ stageCall' = <<>>
                /\ UNCHANGED commands
           ELSE LET ax == Head(c.axes)
                IN  IF ~IsAxis(ax)
                    THEN /\ stageResult' = Ended("home", c.args, "ValueError", commands, <<>>)
                         /\ stageCall' = <<>>
                         /\ UNCHANGED commands
                    ELSE /\ commands' = Append(commands, [cmd |-> "homeAxis", axis |-> ax.name])
                         /\ CallWaitForStop(<<ax, HomeTimeout(ax)>>, "home", c.args,
                                            Tail(c.axes), commands', clock)
    /\ UNCHANGED <<bridgeVars, toolVars, setupVars, proxyVars, producerVars, handlerVars, axisStatus, clock>>

\* sleep(0.25) taking d quarters of a second, the test of the deadline and
\* getAxisStatus, in a loop of waitForStop that raises message on timeout.
SleepAndFetch(d, message) ==
    LET c == stageCall[1]
    IN  /\ clock' = clock + d * SleepTime
        /\ IF clock' > c.deadline
           THEN /\ stageResult' = Ended(c.method, c.args, message, commands, c.status)
                /\ stageCall' = <<>>
           ELSE /\ stageCall' = <<[c EXCEPT !.status = axisStatus[c.axis.name]]>>
                /\ UNCHANGED stageResult

\* One test of waitForStop's first loop: with no status, or a position
\* further than 0.01 mm from the target, one pass of the loop; else on to
\* the second loop.
WaitNear(d) ==
    /\ stageCall # <<>>
    /\ stageCall[1].loop = "near"
    /\ LET c == stageCall[1]
       IN  IF c.status = <<>> \/ Abs(c.targetPosition - c.status[1].position) > Tolerance
           THEN SleepAndFetch(d, "TimeoutError: Waiting for the " \o c.axis.name
                                 \o " axis to get near the target position.")
           ELSE /\ stageCall' = <<[c EXCEPT !.loop = "stop"]>>
                /\ UNCHANGED <<clock, stageResult>>
    /\ UNCHANGED <<bridgeVars, toolVars, setupVars, proxyVars, producerVars, handlerVars, axisStatus, commands>>

\* One test of waitForStop's second loop: with no status, or an axis that
\* is moving, one pass of the loop; else waitForStop returns, to the
\* script or to home's loop.
WaitStop(d) ==
    /\ stageCall # <<>>
    /\ stageCall[1].loop = "stop"
    /\ LET c == stageCall[1]
       IN  IF c.status = <<>> \/ c.status[1].moving
           THEN SleepAndFetch(d, "TimeoutError: Waiting for the " \o c.axis.name
                                 \o " axis to stop moving.")
           ELSE /\ UNCHANGED clock
                /\ IF c.method = "home"
                   THEN /\ stageCall' = <<[method |-> "home", args |-> c.args,
                                           axes |-> c.axes, loop |-> "for"]>>
                        /\ UNCHANGED stageResult
                   ELSE /\ stageCall' = <<>>
                        /\ stageResult' = Ended(c.method, c.args, "returned", commands,
                                                c.status)
    /\ UNCHANGED <<bridgeVars, toolVars, setupVars, proxyVars, producerVars, handlerVars, axisStatus, commands>>

\* _ReplyHandler.axisStatus(axstat), called on the status bus thread: the
\* status of axis a is replaced by st.
AxisStatusMsg(a, st) ==
    /\ axisStatus' = [axisStatus EXCEPT ![a] = <<st>>]
    /\ UNCHANGED <<bridgeVars, toolVars, setupVars, proxyVars, producerVars, handlerVars, commands, clock, stageCall, stageResult>>

\* A Stage object after its constructor, before any status message.
InitStage == /\ NoClient
             /\ NoTools
             /\ NoSetup
             /\ NoProxy
             /\ NoProducer
             /\ NoHandler
             /\ axisStatus = [a \in AxisNames |-> <<>>]
             /\ commands = <<>>
             /\ clock = 0
             /\ stageCall = <<>>
             /\ stageResult = <<>>

NextStage == \/ \E args \in WaitArgs : waitForStop(args)
             \/ \E axes \in HomeArgs : home(axes)
             \/ HomeLoop
             \/ \E d \in 1..MaxSleep : WaitNear(d)
             \/ \E d \in 1..MaxSleep : WaitStop(d)
             \/ \E a \in {"X", "Y"} : \E st \in StatusValues : AxisStatusMsg(a, st)

SpecStage == InitStage /\ [][NextStage]_vars

\* --------------------------------------------------- TS8Stage._ReplyHandler
\* The callbacks of MotorReplyListener other than axisStatus, each with the
\* attribute its assignment names.
CallbackAttribute == [controllerStatus |-> "_controllerStatus",
                      ioStatus |-> "_iostatus",
                      platformConfig |-> "_platformConfig",
                      capturedData |-> "_capturedData"]

\* The getters other than getAxisStatus, each with the attribute it returns.
GetterAttribute == [getControllerStatus |-> "_controllerStatus",
                    getIoStatus |-> "_ioStatus",
                    getPlatformConfig |-> "_platformConfig",
                    getCapturedata |-> "_captureData"]

\* The message type each getter is for.
GetterType == [getControllerStatus |-> "controllerStatus",
               getIoStatus |-> "ioStatus",
               getPlatformConfig |-> "platformConfig",
               getCapturedata |-> "capturedData"]

\* The status bus messages: the type says which callback the message
\* calls, axisName is getAxisName() of an axis status, serial tells the
\* messages of one type apart.
BusMessages ==
    [type : DOMAIN CallbackAttribute, axisName : {""}, serial : 1..MaxCalls]
    \cup [type : {"axisStatus"}, axisName : {"X", "Y"}, serial : 1..MaxCalls]

\* The key of a message in delivered: its type, or its axis.
DeliveredKey(msg) == IF msg.type = "axisStatus" THEN msg.axisName ELSE msg.type

\* _ReplyHandler.<msg.type>(msg), called on the status bus thread under
\* the lock: axisStatus files the message under its axis name, the others
\* assign it to an attribute of the object.
Callback(msg) ==
    /\ handler # <<>>
    /\ IF msg.type = "axisStatus"
       THEN /\ axisStatus' = [axisStatus EXCEPT ![msg.axisName] = <<msg>>]
            /\ UNCHANGED handler
       ELSE /\ handler' = [a \in DOMAIN handler \cup {CallbackAttribute[msg.type]} |->
                               IF a = CallbackAttribute[msg.type] THEN <<msg>>
                               ELSE handler[a]]
            /\ UNCHANGED axisStatus
    /\ delivered' = [delivered EXCEPT ![DeliveredKey(msg)] = <<msg>>]
    /\ UNCHANGED <<bridgeVars, toolVars, setupVars, proxyVars, producerVars, commands,
                   clock, stageCall, stageResult, got>>

\* How a getter call ended: the value returned (<<>> is None) or the
\* exception raised.
Got(getter, outcome, value) == <<[getter |-> getter, outcome |-> outcome, value |-> value]>>

\* _ReplyHandler.<getter>() under the lock.
Getter(getter) ==
    /\ handler # <<>>
    /\ got' = IF GetterAttribute[getter] \in DOMAIN handler
              THEN Got(getter, "returned", handler[GetterAttribute[getter]])
              ELSE Got(getter, "AttributeError", <<>>)
    /\ UNCHANGED <<bridgeVars, stageVars, toolVars, setupVars, proxyVars, producerVars,
                   handler, delivered>>

\* _ReplyHandler.getAxisStatus(axis): _checkAxis, then the entry of the
\* axis name in _axisStatus, None when there is none.
getAxisStatus(axis) ==
    /\ handler # <<>>
    /\ got' = IF IsAxis(axis)
              THEN Got("getAxisStatus " \o axis.name, "returned", axisStatus[axis.name])
              ELSE Got("getAxisStatus", "ValueError", <<>>)
    /\ UNCHANGED <<bridgeVars, stageVars, toolVars, setupVars, proxyVars, producerVars,
                   handler, delivered>>

\* A _ReplyHandler after __init__: four attributes are None, _axisStatus
\* is empty, no message was delivered.
InitHandler == /\ NoClient
               /\ NoTools
               /\ NoSetup
               /\ NoProxy
               /\ NoProducer
               /\ axisStatus = [a \in AxisNames |-> <<>>]
               /\ commands = <<>>
               /\ clock = 0
               /\ stageCall = <<>>
               /\ stageResult = <<>>
               /\ handler = [a \in {"_controllerStatus", "_ioStatus", "_platformConfig",
                                    "_captureData"} |-> <<>>]
               /\ delivered = [k \in DOMAIN CallbackAttribute \cup AxisNames |-> <<>>]
               /\ got = <<>>

NextHandler == \/ \E msg \in BusMessages : Callback(msg)
               \/ \E getter \in DOMAIN GetterAttribute : Getter(getter)
               \/ \E axis \in {X, Y, Z, NotAnAxis} : getAxisStatus(axis)

SpecHandler == InitHandler /\ [][NextHandler]_vars

\* ===================================================== ccs_scripting_tools
\* ccs_python_proxies.CCS.subsystem_names and the class of each proxy.
ProxyClass == [n \in {"ts8-proxy", "subsystem-proxy"} |->
                  IF n = "ts8-proxy" THEN "Ts8Proxy" ELSE "NullSubsystem"]

\* The methods an object of each class has: the classes of
\* ccs_python_proxies, and the subsystem object CCS.attachSubsystem of
\* org.lsst.ccs.scripting returns, which the module calls with
\* sendSynchCommand and sendAsynchCommand.
Methods(class) == IF class \in {"NullSubsystem", "Ts8Proxy"}
                  THEN {"synchCommand", "asynchCommand"}
                  ELSE {"sendSynchCommand", "sendAsynchCommand"}

\* Where the module runs: under the CCS jython interpreter, where
\* org.lsst.ccs.scripting can be imported, or under plain Python, where
\* CCS is ccs_python_proxies.CCS.
Interpreters == {"jython", "python"}

\* CCS.attachSubsystem(value) under interpreter.
Attach(interpreter, value) ==
    IF interpreter = "jython" THEN "CcsSubsystem"
    ELSE IF value \in DOMAIN ProxyClass THEN ProxyClass[value]
    ELSE "NullSubsystem"

\* The subsystem names a calling script builds a container for, under
\* the attribute name sub.
SubsystemNames == {"ts8", "ts/PhotoDiode", "subsystem-proxy", "ts8-proxy"}

\* Command arguments: integers and strings.
IntArg(n) == [type |-> "int", number |-> n]
StrArg(t) == [type |-> "str", text |-> t]

ArgLists == { <<IntArg(10), StrArg("setTestType FE55")>>,
              <<IntArg(10), StrArg("setTestType"), StrArg("FE55")>>,
              <<IntArg(10), StrArg("accumBuffer"), IntArg(100)>>,
              <<StrArg("setTestType"), StrArg("FE55")>> }

Digits == <<"0", "1", "2", "3", "4", "5", "6", "7", "8", "9">>

\* "%d" % n for a natural number n.
RECURSIVE Decimal(_)
Decimal(n) == IF n < 10 THEN Digits[n + 1]
              ELSE Decimal(n \div 10) \o Digits[(n % 10) + 1]

\* "%s" % arg
Format(arg) == IF arg.type = "int" THEN Decimal(arg.number) ELSE arg.text

\* " ".join(["%s" % arg for arg in args])
RECURSIVE JoinSpaces(_)
JoinSpaces(args) == IF args = <<>> THEN ""
                    ELSE IF Len(args) = 1 THEN Format(args[1])
                    ELSE Format(args[1]) \o " " \o JoinSpaces(Tail(args))

\* CcsSubsystems(dict(sub=value), logger=..., version_file=None) under
\* interpreter: the attribute sub is a SubsystemDecorator around the
\* attached object; _get_version_info then calls sendSynchCommand on
\* every subsystem that is not a proxy name, outside its try clause.
CcsSubsystems(interpreter, value, withLogger) ==
    /\ container = <<>>
    /\ response = <<>>
    /\ LET proxy == value \in DOMAIN ProxyClass
           wrapped == IF proxy THEN ProxyClass[value] ELSE Attach(interpreter, value)
       IN  IF ~proxy /\ "sendSynchCommand" \notin Methods(Attach(interpreter, value))
           THEN /\ response' = <<[raised |-> "AttributeError"]>>
                /\ UNCHANGED container
           ELSE /\ container' = <<[name |-> value, ccs_subsystem |-> wrapped,
                                   logger |-> withLogger]>>
                /\ UNCHANGED response
    /\ UNCHANGED <<bridgeVars, stageVars, setupVars, proxyVars, producerVars, handlerVars, logged, forwarded>>

\* sub.<method>(*args) of the SubsystemDecorator: _log_command, then the
\* call of target on the wrapped object, whose result is returned.
Command(method, target, args) ==
    /\ container # <<>>
    /\ Len(forwarded) < MaxCalls
    /\ Len(logged) < MaxCalls
    /\ logged' = IF container[1].logger
                 THEN Append(logged, [level |-> "INFO", message |-> JoinSpaces(args)])
                 ELSE logged
    /\ IF target \in Methods(container[1].ccs_subsystem)
       THEN /\ forwarded' = Append(forwarded, [method |-> target, args |-> args])
            /\ response' = <<[call |-> method, args |-> args,
                              returned |-> [from |-> container[1].ccs_subsystem,
                                            method |-> target, args |-> args]]>>
       ELSE /\ response' = <<[call |-> method, args |-> args, raised |-> "AttributeError"]>>
            /\ UNCHANGED forwarded
    /\ UNCHANGED <<bridgeVars, stageVars, setupVars, proxyVars, producerVars, handlerVars, container>>

synchCommand(args) == Command("synchCommand", "sendSynchCommand", args)

asynchCommand(args) == Command("asynchCommand", "sendAsynchCommand", args)

\* Before a container is made.
InitTools == /\ NoClient
             /\ NoStage
             /\ NoTools
             /\ NoSetup
             /\ NoProxy
             /\ NoProducer
             /\ NoHandler

NextTools == \/ \E i \in Interpreters : \E v \in SubsystemNames : \E l \in BOOLEAN :
                    CcsSubsystems(i, v, l)
             \/ \E args \in ArgLists : synchCommand(args)
             \/ \E args \in ArgLists : asynchCommand(args)

SpecTools == InitTools /\ [][NextTools]_vars

\* ====================================================== ccs_python_proxies
\* What getResult() returns: a tuple or list of strings or of numbers, a
\* string, or the number 1 of NullResponse.
Content(type, texts, numbers) == [type |-> type, texts |-> texts, numbers |-> numbers]

\* NullResponse.getResult()
GenericResult == Content("int", <<>>, <<1>>)

\* Ts8Proxy._fill_responses: the content of the ProxyResponse kept for
\* each command (printGeometry 3 by its first line).
Responses ==
    [c \in {"getREBDeviceNames", "getREBDevices", "getREBHwVersions",
            "getREBSerialNumbers", "printGeometry 3", "getREBIds",
            "getSequencerParameter CleaningNumber",
            "getSequencerParameter ClearCount"} |->
        CASE c \in {"getREBDeviceNames", "getREBDevices"}
                 -> Content("tuple", <<"R00.Reb0", "R00.Reb1", "R00.Reb2">>, <<>>)
          [] c = "getREBHwVersions"
                 -> Content("list", <<>>, <<808599560, 808599560, 808599560>>)
          [] c = "getREBSerialNumbers"
                 -> Content("list", <<>>, <<412165857, 412223738, 412160431>>)
          [] c = "printGeometry 3"
                 -> Content("str", <<"--> R00">>, <<>>)
          [] c = "getREBIds"
                 -> Content("tuple", <<>>, <<0, 1, 2>>)
          [] c = "getSequencerParameter CleaningNumber"
                 -> Content("list", <<>>, <<0, 0, 0>>)
          [] c = "getSequencerParameter ClearCount"
                 -> Content("list", <<>>, <<1, 1, 1>>)]

\* The names given to CCS.attachSubsystem.
AttachNames == {"ts8-proxy", "subsystem-proxy", "ts8"}

\* The timeouts given as first argument of synchCommand.
Timeouts == {0, 10, 60}

\* The arguments that make the command.
CommandArgs == {<<StrArg("getREBDeviceNames")>>, <<StrArg("getREBDevices")>>,
                <<StrArg("getREBHwVersions")>>, <<StrArg("getREBSerialNumbers")>>,
                <<StrArg("getREBIds")>>, <<StrArg("printGeometry"), IntArg(3)>>,
                <<StrArg("getSequencerParameter"), StrArg("ClearCount")>>,
                <<StrArg("getSequencerParameter CleaningNumber")>>,
                <<StrArg("getCCDType")>>, <<>>}

\* ' '.join([str(x) for x in args])
CommandText(args) == JoinSpaces(args)

\* ts8 = ccs_python_proxies.CCS.attachSubsystem(value)
attachSubsystem(value) ==
    /\ ts8' = <<IF value \in DOMAIN ProxyClass THEN ProxyClass[value] ELSE "NullSubsystem">>
    /\ result' = <<>>
    /\ UNCHANGED <<bridgeVars, stageVars, toolVars, producerVars, handlerVars, setupVars>>

\* What <method>(*args) of an object of class returns, by getResult():
\* Ts8Proxy looks the command up, synchCommand leaving out args[0];
\* NullSubsystem answers everything with a NullResponse.
ProxyAnswer(class, method, args) ==
    LET command == IF method = "synchCommand"
                   THEN CommandText(SubSeq(args, 2, Len(args)))
                   ELSE CommandText(args)
    IN  IF class = "Ts8Proxy" /\ command \in DOMAIN Responses
        THEN Responses[command]
        ELSE GenericResult

\* ts8.<method>(*args).getResult()
ProxyCommand(method, args) ==
    /\ ts8 # <<>>
    /\ Len(result) < MaxCalls
    /\ result' = Append(result, [from |-> ts8[1], method |-> method, args |-> args,
                                 getResult |-> ProxyAnswer(ts8[1], method, args)])
    /\ UNCHANGED <<bridgeVars, stageVars, toolVars, setupVars, producerVars, handlerVars, ts8>>

InitProxy == /\ NoClient
             /\ NoStage
             /\ NoTools
             /\ NoSetup
             /\ NoProxy
             /\ NoProducer
             /\ NoHandler

NextProxy == \/ \E value \in AttachNames : attachSubsystem(value)
             \/ \E t \in Timeouts : \E args \in CommandArgs :
                    ProxyCommand("synchCommand", <<IntArg(t)>> \o args)
             \/ \E args \in CommandArgs : ProxyCommand("asynchCommand", args)

SpecProxy == InitProxy /\ [][NextProxy]_vars

\* ================================================================ ccsTools
\* s.strip() for the blanks around keys and values.
RECURSIVE Strip(_)
Strip(s) == IF Len(s) > 0 /\ CharAt(s, 1) = " "
            THEN Strip(SubSeq(s, 2, Len(s)))
            ELSE IF Len(s) > 0 /\ CharAt(s, Len(s)) = " "
                 THEN Strip(SubSeq(s, 1, Len(s) - 1))
                 ELSE s

\* The lines a subsystem configuration file is made of: the ones the test
\* case writes, an entry without blanks and the header of another section.
ConfigLines == {"[ccs_subsystems]", "ts8 = ts8", "ts = ts", "pd = ts/PhotoDiode",
                "mono=ts/Monochromator", "[other]"}

RECURSIVE LineSeqs(_)
LineSeqs(n) == IF n = 0 THEN {<<>>}
               ELSE LET shorter == LineSeqs(n - 1)
                    IN  shorter \cup {Append(f, l) : f \in shorter, l \in ConfigLines}

\* The files explored: no line occurs twice, so no option is given twice
\* in a section and no section is opened twice.
ConfigFiles == {f \in LineSeqs(MaxLines) :
                   \A i \in 1..Len(f) : \A j \in 1..Len(f) : f[i] = f[j] => i = j}

\* The values LCATR_CCS_SUBSYSTEM_CONFIG is set to: the file written and a
\* file that does not exist.
ConfigPaths == {"ccs_subsystems.cfg", "absent.cfg"}

IsHeader(line) == StartsAt(line, 1, "[")

\* The (key, value) pair of an option line: the text before the first "="
\* and the text after it, both stripped; optionxform = str keeps the case.
Option(line) == LET i == Find(line, "=", 1)
                IN  <<Strip(SubSeq(line, 1, i - 1)), Strip(SubSeq(line, i + 1, Len(line)))>>

\* parser.read(config_file) on the lines left: sections in the order of
\* their headers, each with its options in the order of their lines; an
\* option before any header and a line that is neither are errors.
RECURSIVE ReadLines(_, _)
ReadLines(lines, sections) ==
    IF lines = <<>> THEN [error |-> "", sections |-> sections]
    ELSE LET line == Head(lines)
             n == Len(sections)
         IN  IF IsHeader(line)
             THEN ReadLines(Tail(lines),
                            Append(sections,
                                   [name |-> SubSeq(line, 2, Find(line, "]", 1) - 1),
                                    options |-> <<>>]))
             ELSE IF n = 0
                  THEN [error |-> "MissingSectionHeaderError", sections |-> sections]
                  ELSE IF ~Contains(line, "=")
                       THEN [error |-> "ParsingError", sections |-> sections]
                       ELSE ReadLines(Tail(lines),
                                      [sections EXCEPT ![n].options = Append(@, Option(line))])

\* ccs_subsystem_mapping(): None without the environment variable, else
\* the options of the section as an OrderedDict; parser.read passes over
\* a file that does not exist and parser.items raises for a section that
\* was not read.
ccs_subsystem_mapping(env, lines, section) ==
    IF env = <<>>
    THEN [outcome |-> "None", items |-> <<>>]
    ELSE LET parsed == IF env[1] = "ccs_subsystems.cfg"
                       THEN ReadLines(lines, <<>>)
                       ELSE ReadLines(<<>>, <<>>)
             found == {i \in 1..Len(parsed.sections) : parsed.sections[i].name = section}
         IN  IF parsed.error # ""
             THEN [outcome |-> parsed.error, items |-> <<>>]
             ELSE IF found = {}
                  THEN [outcome |-> "NoSectionError", items |-> <<>>]
                  ELSE [outcome |-> "OrderedDict",
                        items |-> parsed.sections[CHOOSE i \in found : TRUE].options]

\* "subsystems['%s'] = '%s'" % (key, value)
Assignment(item) == "subsystems['" \o item[1] \o "'] = '" \o item[2] \o "'"

\* Mutant of SubsystemCommands: the assignments come before the line that
\* creates the OrderedDict.
SubsystemCommands_CreatesLast(mapping) ==
    IF mapping.outcome = "None"
    THEN <<"subsystems = None">>
    ELSE <<"from collections import OrderedDict">>
         \o [i \in 1..Len(mapping.items) |-> Assignment(mapping.items[i])]
         \o <<"subsystems = OrderedDict()">>

\* The list CcsSetup.set_ccs_subsystems builds from the mapping.
SubsystemCommands(mapping) ==
    IF mapping.outcome = "None"
    THEN <<"subsystems = None">>
    ELSE <<"from collections import OrderedDict", "subsystems = OrderedDict()">>
         \o [i \in 1..Len(mapping.items) |-> Assignment(mapping.items[i])]

\* os.environ['LCATR_CCS_SUBSYSTEM_CONFIG'] = path
setenv(path) ==
    /\ environ' = <<path>>
    /\ UNCHANGED <<bridgeVars, stageVars, toolVars, proxyVars, producerVars, handlerVars, configFile, commandList>>

\* del os.environ['LCATR_CCS_SUBSYSTEM_CONFIG']
delenv ==
    /\ environ # <<>>
    /\ environ' = <<>>
    /\ UNCHANGED <<bridgeVars, stageVars, toolVars, proxyVars, producerVars, handlerVars, configFile, commandList>>

\* CcsSetup.set_ccs_subsystems(): the call returns the list or ends with
\* the exception ccs_subsystem_mapping raised; environ is the environment
\* the call ran in.
set_ccs_subsystems ==
    /\ LET mapping == ccs_subsystem_mapping(environ, configFile, "ccs_subsystems")
       IN  commandList' =
               IF mapping.outcome \in {"None", "OrderedDict"}
               THEN <<[environ |-> environ, outcome |-> "returned",
                       commands |-> SubsystemCommands(mapping)]>>
               ELSE <<[environ |-> environ, outcome |-> mapping.outcome,
                       commands |-> <<>>]>>
    /\ UNCHANGED <<bridgeVars, stageVars, toolVars, proxyVars, producerVars, handlerVars, environ, configFile>>

\* A configuration file was written, the variable is unset.
InitSetup == /\ NoClient
             /\ NoStage
             /\ NoTools
             /\ NoProxy
             /\ NoProducer
             /\ NoHandler
             /\ environ = <<>>
             /\ configFile \in ConfigFiles
             /\ commandList = <<>>

NextSetup == \/ \E path \in ConfigPaths : setenv(path)
             \/ delenv
             \/ set_ccs_subsystems

SpecSetup == InitSetup /\ [][NextSetup]_vars

\* ---------------------------------------------------- ccsTools.ccsProducer
\* The job names ccsProducer is called with.
JobNames == {"ts8_acq"}

\* The ccsProducer calls explored: the script of the job, the commands
\* setup() returns and the verbose flag.
ProducerCalls == [jobName : JobNames, ccsScript : FileNames, setup : SetupLists,
                  verbose : BOOLEAN, at : {"running"}]

\* What the remote sends for the frame of id when the execution raises a
\* Java exception: the line or lines that report it, then the marker line.
FaultReplies(id) == { <<"java.lang.Exception: fault in " \o id \o "\n",
                       DoneMarker(id) \o "\n">>,
                     <<"java.lang.Exception: fault in " \o id \o "\n",
                       "Caused by: java.lang.NullPointerException in " \o id \o "\n",
                       DoneMarker(id) \o "\n">> }

\* The remote interpreter answers the next written frame, whose execution
\* failed.
RemoteFault ==
    /\ ~closed
    /\ answered < Len(sent)
    /\ \E reply \in FaultReplies(FrameId(sent[answered + 1])) : sock' = sock \o reply
    /\ answered' = answered + 1
    /\ UNCHANGED <<outside, closed, script, name, pc, op, cur, connectionResult, sent, th,
                   handles, stdout, returned, raised, connects>>

\* ccsProducer's call of ccs.syncScriptExecution(full_script_path, setup(),
\* verbose=verbose), made once the constructor has returned.
ProducerScript ==
    /\ producer # <<>>
    /\ producer[1].at = "running"
    /\ handles = {}
    /\ syncScriptExecution(producer[1].ccsScript, producer[1].setup, producer[1].verbose)

\* The handle syncScriptExecution returned to ccsProducer.
ProducerResult == CHOOSE h \in handles : TRUE

\* output.write(result.getOutput()) and output.close(): the listener of
\* result has ended, so getOutput() returns at once.
ProducerLog ==
    /\ producer # <<>>
    /\ producer[1].at = "running"
    /\ pc = "idle"
    /\ handles # {}
    /\ logFile' = <<[name |-> producer[1].jobName \o ".log",
                     text |-> th[ProducerResult].execution_output]>>
    /\ producer' = <<[producer[1] EXCEPT !.at = "written"]>>
    /\ UNCHANGED <<bridgeVars, stageVars, toolVars, setupVars, proxyVars, handlerVars>>

\* Mutant of ProducerEnd: the error names the first captured line only.
ProducerEnd_FirstLineOnly ==
    /\ producer # <<>>
    /\ producer[1].at = "written"
    /\ LET java_exceptions == th[ProducerResult].java_exceptions
       IN  IF java_exceptions # <<>>
           THEN /\ raised' = <<"RuntimeError: java.lang.Exceptions raised:\n"
                               \o java_exceptions[1]>>
                /\ pc' = "failed"
                /\ producer' = <<[producer[1] EXCEPT !.at = "raised"]>>
           ELSE /\ producer' = <<[producer[1] EXCEPT !.at = "returned"]>>
                /\ UNCHANGED <<raised, pc>>
    /\ UNCHANGED <<stageVars, toolVars, setupVars, proxyVars, handlerVars, logFile, closed, name, op, cur,
                   connectionResult, sock, sent, th, handles, stdout, returned,
                   connects, answered, script>>

\* Mutant of ProducerEnd: the fatal lines of every submission are looked at.
ProducerEnd_EverySubmission ==
    /\ producer # <<>>
    /\ producer[1].at = "written"
    /\ LET java_exceptions == ScanLines(Split(Join([i \in 1..Len(th) |->
                                   JoinLines(th[i].java_exceptions) \o "\n"])))
       IN  IF java_exceptions # <<>>
           THEN /\ raised' = <<"RuntimeError: java.lang.Exceptions raised:\n"
                               \o JoinLines(java_exceptions)>>
                /\ pc' = "failed"
                /\ producer' = <<[producer[1] EXCEPT !.at = "raised"]>>
           ELSE /\ producer' = <<[producer[1] EXCEPT !.at = "returned"]>>
                /\ UNCHANGED <<raised, pc>>
    /\ UNCHANGED <<stageVars, toolVars, setupVars, proxyVars, handlerVars, logFile, closed, name, op, cur,
                   connectionResult, sock, sent, th, handles, stdout, returned,
                   connects, answered, script>>

\* The test of result.thread.java_exceptions after the file was closed:
\* RuntimeError with the captured lines, or the return of ccsProducer.
ProducerEnd ==
    /\ producer # <<>>
    /\ producer[1].at = "written"
    /\ LET java_exceptions == th[ProducerResult].java_exceptions
       IN  IF java_exceptions # <<>>
           THEN /\ raised' = <<"RuntimeError: java.lang.Exceptions raised:\n"
                               \o JoinLines(java_exceptions)>>
                /\ pc' = "failed"
                /\ producer' = <<[producer[1] EXCEPT !.at = "raised"]>>
           ELSE /\ producer' = <<[producer[1] EXCEPT !.at = "returned"]>>
                /\ UNCHANGED <<raised, pc>>
    /\ UNCHANGED <<stageVars, toolVars, setupVars, proxyVars, handlerVars, logFile, closed, name, op, cur,
                   connectionResult, sock, sent, th, handles, stdout, returned,
                   connects, answered, script>>

\* ccsProducer at its first statement, CcsJythonInterpreter("ts"), with a
\* remote that sends its greeting and then answers each frame in turn.
InitProducer == /\ name = <<"ts">>
                /\ pc = "new"
                /\ op = "none"
                /\ cur = 0
                /\ connectionResult = <<>>
                /\ sock \in {Segments(<<g>>) : g \in Greetings}
                /\ sent = <<>>
                /\ th = <<>>
                /\ handles = {}
                /\ stdout = <<>>
                /\ returned = {}
                /\ raised = <<>>
                /\ connects = 0
                /\ answered = 0
                /\ script = <<>>
                /\ closed = FALSE
                /\ NoStage
                /\ NoTools
                /\ NoSetup
                /\ NoProxy
                /\ NoHandler
                /\ producer \in {<<c>> : c \in ProducerCalls}
                /\ logFile = <<>>

NextProducer ==
    \/ Connect
    \/ ConnectFail
    \/ \E k \in 1..Len(sock) : RecvGreeting(k)
    \/ ProducerScript
    \/ ScriptSetup
    \/ ScriptOpen
    \/ Send
    \/ Poll
    \/ Background
    \/ RemoteFault
    \/ ProducerLog
    \/ ProducerEnd

SpecProducer == InitProducer /\ [][NextProducer]_vars

\* ------------------------------------------------------ claims: vocabulary
\* The chunks thread object t's listener read that do not hold its marker.
OutputChunks(t) == SelectSeq(t.reads, LAMBDA c : ~Contains(c, DoneMarker(t.id)))

\* The listener of t has read a chunk holding its own marker.
SawMarker(t) == \E n \in 1..Len(t.reads) : Contains(t.reads[n], DoneMarker(t.id))

\* The constructor has returned the client to the calling script.
CtorReturned == pc \in {"idle", "send", "poll"} /\ op # "ctor"

\* A simple remote side's decoder: the text between the first line
\* startContent:<id> and the next line endContent:<id>, <<>> when the
\* written text has no such lines.
Decode(text, id) ==
    LET lines == Split(text)
        starts == {a \in 1..Len(lines) : lines[a] = "startContent:" \o id}
    IN  IF starts = {} THEN <<>>
        ELSE LET a == CHOOSE x \in starts : \A y \in starts : x <= y
                 ends == {b \in (a + 1)..Len(lines) : lines[b] = "endContent:" \o id}
             IN  IF ends = {} THEN <<>>
                 ELSE LET b == CHOOSE x \in ends : \A y \in ends : x <= y
                      IN  <<JoinLines(SubSeq(lines, a + 1, b - 1))>>

\* The fatal pattern as the specification words it: the line contains the
\* token java.lang. followed by a word that ends in Exception.
FatalPattern(line) ==
    \E p \in 1..Len(line) :
        /\ StartsAt(line, p, "java.lang.")
        /\ \E q \in (p + 10)..Len(line) :
               /\ StartsAt(line, q, "Exception")
               /\ IsWord(SubSeq(line, p + 10, q - 1))
               /\ (q + 9 > Len(line) \/ CharAt(line, q + 9) \notin WordChars)

\* The lines of a sequence of chunks, chunk by chunk, in arrival order.
RECURSIVE LinesOf(_)
LinesOf(chunks) == IF chunks = <<>> THEN <<>>
                   ELSE Split(Head(chunks)) \o LinesOf(Tail(chunks))

\* ---------------------------------------------------------------- claim C1
\* C1: a chunk that holds doneExecution:<id> for the listener's own id is
\* never appended to the output: when the listener has read such a chunk,
\* the output is exactly what the chunks read before it gave, and so is
\* every text getOutput() returned for that handle; nothing of the marker
\* chunk (the marker, text before it, text after it) is in it.
C1_MarkerChunkDiscarded ==
    \A i \in 1..Len(th) : \A n \in 1..Len(th[i].reads) :
        Contains(th[i].reads[n], DoneMarker(th[i].id))
        => /\ th[i].execution_output = Join(SubSeq(th[i].reads, 1, n - 1))
           /\ \A r \in returned :
                  r.h = i => r.text = Join(SubSeq(th[i].reads, 1, n - 1))

\* A listener read its marker with user text after it in the same chunk,
\* and getOutput() has returned for that handle.
C1_Witness ==
    \E r \in returned :
        /\ th[r.h].reads # <<>>
        /\ Last(th[r.h].reads) = DoneMarker(th[r.h].id) \o "\n2\n"

\* ---------------------------------------------------------------- claim C2
\* C2: running is true from the creation of the thread object, is false
\* exactly from the first chunk its own listener reads that holds its own
\* marker (a step changes it only from true to false, and only when that
\* listener reads such a chunk), and getOutput() returns and the polling
\* caller goes on only for a handle whose listener has read its marker.
C2_RunningState ==
    /\ \A i \in 1..Len(th) :
           /\ th[i].running <=> ~SawMarker(th[i])
           /\ \A n \in 1..Len(th[i].reads) :
                  Contains(th[i].reads[n], DoneMarker(th[i].id)) => n = Len(th[i].reads)
    /\ \A r \in returned : SawMarker(th[r.h])

C2_RunningStep ==
    \A i \in 1..Len(th') :
        IF i > Len(th)
        THEN th'[i].running
        ELSE th'[i].running # th[i].running
             => /\ th[i].running
                /\ ~th'[i].running
                /\ Len(th'[i].reads) = Len(th[i].reads) + 1
                /\ Contains(Last(th'[i].reads), DoneMarker(th[i].id))
                /\ ~SawMarker(th[i])

C2_RunningFlag == []C2_RunningState /\ [][C2_RunningStep]_vars

\* A caller is blocked in getOutput() on a handle whose listener has read
\* chunks, none with its marker, while another listener has finished.
C2_Witness ==
    /\ pc = "poll"
    /\ op = "get"
    /\ th[cur].reads # <<>>
    /\ th[cur].running
    /\ \E j \in 1..Len(th) : j # cur /\ ~th[j].running

\* ---------------------------------------------------------------- claim C3
\* C3: when the bytes of doneExecution:<id> arrive split across two
\* consecutive chunks read by the listener of that id, the listener has set
\* running to false and has terminated once it has read the second part.
C3_SplitMarkerDetected ==
    \A i \in 1..Len(th) : \A n \in 1..(Len(th[i].reads) - 1) :
        ( /\ ~Contains(th[i].reads[n], DoneMarker(th[i].id))
          /\ ~Contains(th[i].reads[n + 1], DoneMarker(th[i].id))
          /\ Contains(th[i].reads[n] \o th[i].reads[n + 1], DoneMarker(th[i].id)) )
        => (~th[i].running /\ th[i].lpc = "done")

\* ---------------------------------------------------------------- claim C4
\* C4: getOutput() returns only for a handle whose running flag is false,
\* a call made when the flag is already false returns in the same step (the
\* caller starts to poll only when the flag is true), and every text
\* returned for a handle is the handle's output as it is now: all calls
\* return the same text, whatever is read on the connection afterwards.
C4_ReturnedState ==
    \A r \in returned : /\ ~th[r.h].running
                        /\ r.text = th[r.h].execution_output

C4_CallStep ==
    /\ (pc = "idle" /\ pc' = "poll" /\ op' = "get") => th[cur'].running
    /\ \A r \in returned : r \in returned'
    /\ \A r \in returned' :
           r \notin returned => /\ ~th[r.h].running
                                /\ r.text = th[r.h].execution_output
                                /\ pc' = "idle"

C4_Blocking == []C4_ReturnedState /\ [][C4_CallStep]_vars

\* getOutput() has returned for a handle and another listener has read
\* from the connection and appended to its own output.
C4_Witness ==
    \E r \in returned : \E j \in 1..Len(th) :
        /\ j > r.h
        /\ th[j].execution_output # ""

\* ---------------------------------------------------------------- claim C5
\* C5: every submission performs exactly one write, and the written text
\* is startContent:I, newline, P, newline, endContent:I, newline, for the
\* submission's id I and payload P; decoding it gives P back unchanged.
C5_FramingRoundTrip ==
    /\ Len(sent) = Len(th) - (IF pc = "send" THEN 1 ELSE 0)
    /\ \A n \in 1..Len(sent) :
           /\ sent[n] = "startContent:" \o th[n].id \o "\n"
                        \o th[n].content \o "\n"
                        \o "endContent:" \o th[n].id \o "\n"
           /\ Decode(sent[n], th[n].id) = <<th[n].content>>

\* Two submissions were written, one with the empty payload and one with
\* a payload of several lines that ends in a newline.
C5_Witness ==
    /\ Len(sent) = 2
    /\ \E n \in 1..2 : th[n].content = ""
    /\ \E n \in 1..2 : th[n].content = "a = 1\nprint(a+1)\n"

\* ---------------------------------------------------------------- claim C6
\* What listener i mirrored to the console, write by write.
ConsoleOf(i) ==
    LET mine == SelectSeq(stdout, LAMBDA w : w.by = i)
    IN  [n \in 1..Len(mine) |-> mine[n].text]

\* C6: when a listener has terminated, its output is the concatenation, in
\* read order, of the chunks it read that did not hold its marker, exactly
\* those chunks were mirrored to the console in that order, and for id
\* abc123 and the chunks "2\n", "doneExecution:abc123\n" the output is
\* "2\n" and the exception list is empty.
C6_OutputIsKeptChunks ==
    \A i \in 1..Len(th) :
        th[i].lpc = "done"
        => /\ th[i].execution_output = Join(OutputChunks(th[i]))
           /\ ConsoleOf(i) = OutputChunks(th[i])
           /\ (th[i].id = "abc123" /\ th[i].reads = <<"2\n", "doneExecution:abc123\n">>)
              => (th[i].execution_output = "2\n" /\ th[i].java_exceptions = <<>>)

\* The scenario: the listener of abc123 read "2\n", then its marker line.
C6_Witness ==
    \E i \in 1..Len(th) :
        /\ th[i].lpc = "done"
        /\ th[i].id = "abc123"
        /\ th[i].reads = <<"2\n", "doneExecution:abc123\n">>

\* ---------------------------------------------------------------- claim C7
\* The lines thread object t's listener received before its marker: those
\* of the chunks before the marker chunk, then those of the marker chunk
\* up to the marker.
LinesBeforeMarker(t) ==
    LET m == Last(t.reads)
    IN  LinesOf(SubSeq(t.reads, 1, Len(t.reads) - 1))
        \o Split(SubSeq(m, 1, FirstIndex(m, DoneMarker(t.id)) - 1))

\* C7 as claimed: after completion, every fatal-pattern line received
\* before the marker is in the exception list and is not part of the output.
C7_FatalLineKeptOutOfOutput ==
    \A i \in 1..Len(th) :
        th[i].lpc = "done"
        => \A n \in 1..Len(LinesBeforeMarker(th[i])) :
               LET line == LinesBeforeMarker(th[i])[n]
               IN  FatalPattern(line)
                   => /\ \E e \in 1..Len(th[i].java_exceptions) :
                             th[i].java_exceptions[e] = line
                      /\ ~Contains(th[i].execution_output, line)

\* C7, amended: after completion, every fatal-pattern line of a chunk the
\* listener read is in the exception list, and the output is the
\* concatenation of the chunks read before the marker chunk, so that a
\* fatal line of one of those chunks is part of the output.
C7_FatalLineCapturedAndInOutput ==
    \A i \in 1..Len(th) :
        th[i].lpc = "done"
        => /\ th[i].execution_output = Join(SubSeq(th[i].reads, 1, Len(th[i].reads) - 1))
           /\ \A n \in 1..Len(th[i].reads) :
                  \A l \in 1..Len(Split(th[i].reads[n])) :
                      LET line == Split(th[i].reads[n])[l]
                      IN  FatalPattern(line)
                          => /\ \E e \in 1..Len(th[i].java_exceptions) :
                                    th[i].java_exceptions[e] = line
                             /\ (n < Len(th[i].reads)
                                 => Contains(th[i].execution_output, line))

\* A listener has terminated after a fatal line in a chunk without marker.
C7_Witness ==
    \E i \in 1..Len(th) :
        /\ th[i].lpc = "done"
        /\ \E n \in 1..(Len(th[i].reads) - 1) :
               \E l \in 1..Len(Split(th[i].reads[n])) :
                   FatalPattern(Split(th[i].reads[n])[l])

\* ---------------------------------------------------------------- claim C8
\* C8: the exception list of a listener is, in arrival order, exactly the
\* lines of the chunks it read that match the fatal pattern (java.lang.
\* followed by a word ending in Exception); a line that does not match is
\* never in it.
C8_ExactlyFatalLinesCaptured ==
    \A i \in 1..Len(th) :
        th[i].java_exceptions = SelectSeq(LinesOf(th[i].reads), FatalPattern)

\* ---------------------------------------------------------------- claim C9
\* C9: when the greeting read after connecting holds ConnectionRefused,
\* the constructor has failed with the connection error, there is no
\* client (no thread object, no handle), nothing was written to the
\* socket, and the connect was made once; it is never made twice.
C9_RefusedGreetingFails ==
    /\ connects <= 1
    /\ (connectionResult # <<>> /\ Contains(connectionResult[1], "ConnectionRefused"))
       => /\ pc = "failed"
          /\ raised = <<"Could not connect to CCS Python Interpreter on host:port">>
          /\ sent = <<>>
          /\ th = <<>>
          /\ handles = {}
          /\ connects = 1

\* The constructor read a greeting with ConnectionRefused, with a name given.
C9_Witness ==
    /\ connectionResult # <<>>
    /\ Contains(connectionResult[1], "ConnectionRefused")
    /\ name # <<>>
    /\ pc = "failed"

\* --------------------------------------------------------------- claim C10
\* C10: with a name given, once the constructor has returned, the first
\* write on the socket is the frame of initializeInterpreter <name without
\* newlines>, its listener has read its marker and cleared running, it was
\* the only write when the constructor returned and no later write is an
\* initializeInterpreter submission; with no name given the constructor
\* starts no submission and has written nothing when it returns.
C10_InitializeBeforeReturn ==
    /\ (name # <<>> /\ CtorReturned)
       => /\ Len(sent) >= 1
          /\ sent[1] = "startContent:" \o th[1].id \o "\n"
                       \o "initializeInterpreter " \o Join(Split(name[1]))
                       \o "\nendContent:" \o th[1].id \o "\n"
          /\ SawMarker(th[1])
          /\ ~th[1].running
          /\ (Len(th) = 1 => Len(sent) = 1)
          /\ \A n \in 2..Len(sent) : ~Contains(sent[n], "initializeInterpreter")
    /\ name = <<>>
       => /\ op # "ctor"
          /\ \A n \in 1..Len(sent) : ~Contains(sent[n], "initializeInterpreter")
          /\ (CtorReturned /\ th = <<>>) => sent = <<>>

\* The constructor has returned a client that was given a name with a
\* newline in it.
C10_Witness ==
    /\ name # <<>>
    /\ Contains(name[1], "\n")
    /\ CtorReturned
    /\ Len(th) = 1

\* --------------------------------------------------------------- claim C11
\* C11: syncExecution returns its handle only when the handle's running
\* flag is false and its frame has been written, under the very condition
\* under which a getOutput() call on the handle returns and without any
\* other effect on the bridge; aSyncExecution returns its handle in the
\* step that writes the frame, whatever the running flag is and whatever
\* has been read, and that step never waits.
C11_CallState ==
    /\ op \in {"sync", "async"} => cur \notin handles
    /\ \A h \in handles : h <= Len(sent) /\ sent[h] = Frame(th[h].id, th[h].content)
    /\ (pc = "send" /\ op = "async") => ENABLED Send
    /\ (pc = "poll" /\ op \in {"sync", "get"}) => (ENABLED Poll <=> ~th[cur].running)

C11_CallStep ==
    /\ (op = "sync" /\ op' = "none")
       => /\ ~th[cur].running
          /\ cur <= Len(sent)
          /\ handles' = handles \cup {cur}
          /\ UNCHANGED <<sent, sock, th, stdout, returned>>
    /\ (op = "get" /\ op' = "none")
       => /\ ~th[cur].running
          /\ UNCHANGED <<sent, sock, th, stdout, handles>>
    /\ (op = "async" /\ op' = "none")
       => /\ pc = "send"
          /\ sent' = Append(sent, Frame(th[cur].id, th[cur].content))
          /\ handles' = handles \cup {cur}
          /\ UNCHANGED <<sock, th, stdout, returned>>

C11_SyncIsAsyncThenGetOutput == []C11_CallState /\ [][C11_CallStep]_vars

\* aSyncExecution has returned a handle whose listener has read nothing
\* and is still running, and a later syncExecution is waiting.
C11_Witness ==
    /\ pc = "poll"
    /\ op = "sync"
    /\ th[cur].running
    /\ \E h \in handles : th[h].running /\ th[h].reads = <<>>

\* --------------------------------------------------------------- claim C12
\* The texts a syncScriptExecution call submits, in order: the setup
\* commands as given, then the content of the file.
ScriptTexts(c) == c.given \o FileSystem[c.filename]

\* C12: during a syncScriptExecution call, the frames written by the call
\* are those of the setup commands in the given order and then that of the
\* file's content, each written under its own thread id; a thread object
\* of the call is made, and so its frame written, only when the listeners
\* of all earlier thread objects of the call have cleared running; when no
\* listener was reading at the call, at most one listener is reading at
\* any moment of the call; and the call returns its handle only when all
\* its frames are written and the listener of the script's content has
\* cleared running.
C12_DuringCall ==
    script # <<>>
    => LET c == script[1]
       IN  /\ Len(th) - c.first + 1 = Len(c.given) - Len(c.setup_commands)
                                      + (IF op = "script" /\ pc \in {"send", "poll"}
                                         THEN 1 ELSE 0)
           /\ \A n \in c.first..Len(sent) :
                  /\ n - c.first + 1 <= Len(ScriptTexts(c))
                  /\ sent[n] = Frame(th[n].id, ScriptTexts(c)[n - c.first + 1])
           /\ \A n \in c.first..(Len(th) - 1) : ~th[n].running /\ n <= Len(sent)
           /\ c.quiet => Cardinality({i \in 1..Len(th) : Reading(th[i])}) <= 1

C12_Return ==
    (script # <<>> /\ script' = <<>> /\ raised' = raised)
    => LET c == script[1]
       IN  /\ Len(sent) = c.first + Len(c.given)
           /\ Len(th) = Len(sent)
           /\ ~th[Len(th)].running
           /\ th[Len(th)].content = FileSystem[c.filename][1]
           /\ handles' = handles \cup {Len(th)}
           /\ pc' = "idle"

C12_SetupThenScriptInOrder == []C12_DuringCall /\ [][C12_Return]_vars

\* A syncScriptExecution call with two setup commands, made when no
\* listener was reading, has returned the handle of the script's content.
C12_Witness ==
    \E h \in handles :
        /\ h >= 3
        /\ script = <<>>
        /\ th[h].content = "print(1+1)\n"
        /\ th[h - 1].content = "b = 2"
        /\ th[h - 2].content = "a = 1"
        /\ \A i \in 1..Len(th) : ~th[i].running

\* --------------------------------------------------------------- claim C13
\* C13: an aSyncScriptExecution call on a file that cannot be read ends
\* with the file error in the step it is made: nothing is written to the
\* connection, no thread object is made and no listener started, no handle
\* is handed out, and nothing is read or printed.
C13_UnreadableFileLeavesBridgeUntouched ==
    [][ (pc = "idle" /\ pc' = "failed")
        => /\ raised' \in {<<"IOError: " \o f>> : f \in {g \in FileNames : FileSystem[g] = <<>>}}
           /\ UNCHANGED <<sent, th, handles, sock, stdout, returned, op, cur>> ]_vars

\* The call failed on a connected client that has made a submission.
C13_Witness ==
    /\ pc = "failed"
    /\ raised = <<"IOError: missing.py">>
    /\ op = "none"
    /\ script = <<>>
    /\ th # <<>>
    /\ handles = {}

\* --------------------------------------------------------------- claim C14
\* A listener whose read failed never reads again.
C14_NoFurtherRead ==
    \A i \in 1..Len(th) :
        th[i].lpc = "raised" => /\ th'[i].lpc = "raised"
                                /\ th'[i].reads = th[i].reads

\* A caller is blocked in getOutput() on the handle of a listener whose
\* read failed.
BlockedOnFailed == pc = "poll" /\ th[cur].lpc = "raised"

\* C14: when a read of a running listener fails, the listener ends with
\* the communication error and never reads again, and a caller that is
\* blocked in getOutput() on its handle, then or later, gets out of the
\* call.
C14_ReadFailureSurfaces ==
    /\ [][C14_NoFurtherRead]_vars
    /\ BlockedOnFailed ~> ~BlockedOnFailed

\* --------------------------------------------------------------- claim C15
\* s begins with p.
IsPrefix(p, s) == Len(p) <= Len(s) /\ SubSeq(s, 1, Len(p)) = p

\* C15: with a calling script that submits only when getOutput() has
\* returned for every handle it holds, and a remote that answers each
\* frame with the output of its execution and then its marker, at most one
\* listener is reading at any moment, what a listener has read is the
\* beginning of what the remote sent for its own submission, and its
\* output is made of the chunks it read without its marker.
C15_SequentialUseIsSafe ==
    /\ Cardinality({i \in 1..Len(th) : Reading(th[i])}) <= 1
    /\ \A i \in 1..Len(th) :
           /\ \E reply \in Replies(th[i].id) : IsPrefix(Join(th[i].reads), Join(reply))
           /\ th[i].lpc # "boot" => th[i].execution_output = Join(OutputChunks(th[i]))
           /\ \A j \in 1..Len(th) :
                  j # i => ~Contains(th[i].execution_output, "out of " \o th[j].id)

\* Two submissions were made one after the other and each handle's output
\* is what the remote sent for it.
C15_Witness ==
    /\ Len(th) = 2
    /\ \A i \in 1..2 : /\ ~th[i].running
                       /\ th[i].execution_output = "out of " \o th[i].id \o "\n"
    /\ \E r \in returned : r.h = 2

\* --------------------------------------------------------------- claim C16
\* aSyncExecution can be called whenever the calling script is between two
\* calls, whether or not listeners are reading (up to the number of
\* submissions explored).
C16_CanSubmit ==
    (pc = "idle" /\ Len(th) < MaxSubs)
    => ENABLED (\E s \in Statements : aSyncExecution(s))

\* A read by a listener takes the chunk at the head of the connection,
\* whichever submission the remote sent it for, and the listener keeps it
\* in its own output unless it holds the listener's own marker.
C16_ReadStep ==
    \A j \in 1..Len(th) :
        Len(th'[j].reads) = Len(th[j].reads) + 1
        => LET output == Last(th'[j].reads)
           IN  /\ \E k \in 1..Len(sock) :
                      /\ output = Join(SubSeq(sock, 1, k))
                      /\ sock' = SubSeq(sock, k + 1, Len(sock))
               /\ ~Contains(output, DoneMarker(th[j].id))
                  => th'[j].execution_output
                         = Started(th[j]).execution_output \o output

\* C16: nothing prevents a second submission while listeners are reading:
\* aSyncExecution can be called whenever the calling script is between two
\* calls, and every read of a listener takes the next chunk of the shared
\* connection into its own output, whichever submission the chunk was
\* sent for; so a chunk sent for one submission can end in the output of
\* another.
C16_NothingPreventsTwoInFlight == []C16_CanSubmit /\ [][C16_ReadStep]_vars

\* Two aSyncExecution calls were made without waiting, and the output of
\* one handle holds the output the remote sent for the other.
C16_Witness ==
    \E i \in handles : \E j \in handles :
        /\ i # j
        /\ returned = {}
        /\ th[i].content \in Statements
        /\ th[j].content \in Statements
        /\ Contains(th[j].execution_output, "out of " \o th[i].id)

\* --------------------------------------------------------------- claim C17
\* C17 as claimed: a listener performs no read before the frame of its
\* submission has been written, and there is no listener for a submission
\* whose frame has not been written.
C17_ListenerStartedAfterWrite ==
    \A i \in 1..Len(th) : i <= Len(sent)

\* C17, amended: the listener of a submission is started in the step
\* before the write of its frame. A thread object is made, with its
\* listener started, only by a call that goes on to write its frame, the
\* frame is the next thing written and is written under that thread
\* object's id; so every frame written has a listener, at most one
\* listener has no frame, and then the submitting call is about to write it.
C17_StartState ==
    /\ Len(sent) = Len(th) - (IF pc = "send" THEN 1 ELSE 0)
    /\ pc = "send" => cur = Len(th)
    /\ \A n \in 1..Len(sent) : FrameId(sent[n]) = th[n].id

C17_StartStep ==
    /\ Len(th') > Len(th) => /\ Len(th') = Len(th) + 1
                             /\ pc' = "send"
                             /\ sent' = sent
                             /\ th'[Len(th')].running
                             /\ th'[Len(th')].reads = <<>>
    /\ sent' # sent => /\ pc = "send"
                       /\ th' = th
                       /\ sent' = Append(sent, Frame(th[cur].id, th[cur].content))

C17_ListenerStartedBeforeWrite == []C17_StartState /\ [][C17_StartStep]_vars

\* A listener has read from the connection and the frame of its
\* submission is not yet written.
C17_Witness ==
    /\ pc = "send"
    /\ th[cur].reads # <<>>
    /\ Len(sent) < cur

\* --------------------------------------------------------------- claim C18
\* C18: a waitForStop call on a valid axis that has returned normally had
\* last fetched a status of that axis with a position within 0.01 mm of
\* the target and not moving, and a call that did not return normally
\* ended with TimeoutError.
C18_ReturnsOnlyNearAndStopped ==
    (stageResult # <<>> /\ stageResult[1].method = "waitForStop"
                        /\ IsAxis(stageResult[1].args[1]))
    => LET r == stageResult[1]
       IN  IF r.outcome = "returned"
           THEN /\ r.status # <<>>
                /\ Abs(r.args[2] - r.status[1].position) <= Tolerance
                /\ ~r.status[1].moving
           ELSE StartsAt(r.outcome, 1, "TimeoutError")

\* --------------------------------------------------------------- claim C19
\* The homeAxis commands for axes, in order.
RECURSIVE HomeCommands(_)
HomeCommands(axes) == IF axes = <<>> THEN <<>>
                      ELSE <<[cmd |-> "homeAxis", axis |-> Head(axes).name]>>
                           \o HomeCommands(Tail(axes))

\* C19: a home call on valid axes that has ended has either returned
\* after sending one homeAxis command for each axis in the given order, or
\* raised TimeoutError after sending the commands of the first axes in
\* that order; it ends in no other way.
C19_HomeEachAxisInOrder ==
    (stageResult # <<>> /\ stageResult[1].method = "home"
                        /\ \A n \in 1..Len(stageResult[1].args) : IsAxis(stageResult[1].args[n]))
    => LET r == stageResult[1]
       IN  \/ /\ r.outcome = "returned"
              /\ r.commands = HomeCommands(r.args)
           \/ /\ StartsAt(r.outcome, 1, "TimeoutError")
              /\ \E n \in 1..Len(r.args) : r.commands = HomeCommands(SubSeq(r.args, 1, n))

\* --------------------------------------------------------------- claim C20
\* C20: after a synchCommand or asynchCommand call on the attribute of a
\* container, the call has returned what the wrapped subsystem returned
\* for the same arguments and the wrapped subsystem has received them;
\* with a logger every call has logged exactly one INFO line, the
\* arguments joined by single spaces, and without a logger nothing is
\* logged.
C20_LogOnceThenForward ==
    (container # <<>> /\ response # <<>>)
    => /\ "returned" \in DOMAIN response[1]
       /\ forwarded # <<>>
       /\ Last(forwarded).args = response[1].args
       /\ response[1].returned.args = response[1].args
       /\ IF container[1].logger
          THEN /\ Len(logged) = Len(forwarded)
               /\ Last(logged) = [level |-> "INFO", message |-> JoinSpaces(response[1].args)]
          ELSE logged = <<>>

\* --------------------------------------------------------------- claim C21
\* The option lines of the section named [ccs_subsystems] in a file: the
\* lines after its header up to the next header.
SectionLines(lines) ==
    LET h == CHOOSE i \in 1..Len(lines) : lines[i] = "[ccs_subsystems]"
        after == {i \in (h + 1)..Len(lines) : IsHeader(lines[i])}
        end == IF after = {} THEN Len(lines)
               ELSE (CHOOSE i \in after : \A j \in after : i <= j) - 1
    IN  SubSeq(lines, h + 1, end)

\* The file configures a mapping: it starts with a header and has the
\* section.
Configures(lines) == /\ lines # <<>>
                     /\ IsHeader(lines[1])
                     /\ \E i \in 1..Len(lines) : lines[i] = "[ccs_subsystems]"

\* C21: set_ccs_subsystems returns exactly ['subsystems = None'] when the
\* environment variable is unset; when it names a file that configures the
\* section, it returns the import line, the line creating the OrderedDict
\* and one assignment subsystems['<key>'] = '<value>' per entry of the
\* section, in the order of the entries in the file.
C21_SetupCommandsFollowMapping ==
    \A r \in {commandList[n] : n \in 1..Len(commandList)} :
        /\ r.environ = <<>>
           => r.outcome = "returned" /\ r.commands = <<"subsystems = None">>
        /\ (r.environ = <<"ccs_subsystems.cfg">> /\ Configures(configFile))
           => LET entries == SectionLines(configFile)
              IN  /\ r.outcome = "returned"
                  /\ Len(r.commands) = Len(entries) + 2
                  /\ r.commands[1] = "from collections import OrderedDict"
                  /\ r.commands[2] = "subsystems = OrderedDict()"
                  /\ \A i \in 1..Len(entries) :
                         LET e == Find(entries[i], "=", 1)
                         IN  r.commands[i + 2]
                                 = "subsystems['"
                                   \o Strip(SubSeq(entries[i], 1, e - 1))
                                   \o "'] = '"
                                   \o Strip(SubSeq(entries[i], e + 1, Len(entries[i])))
                                   \o "'"

\* A call returned the commands for a section of two entries, the second
\* written without blanks around "=".
C21_Witness ==
    /\ commandList # <<>>
    /\ commandList[1].environ = <<"ccs_subsystems.cfg">>
    /\ commandList[1].commands = <<"from collections import OrderedDict",
                                   "subsystems = OrderedDict()",
                                   "subsystems['pd'] = 'ts/PhotoDiode'",
                                   "subsystems['mono'] = 'ts/Monochromator'">>

\* --------------------------------------------------------------- claim C22
\* C22: the subsystem attached as 'ts8-proxy' answers synchCommand(timeout,
\* command) from its table whatever the timeout: the three names R00.Reb0,
\* R00.Reb1, R00.Reb2 for getREBDeviceNames, [808599560, 808599560,
\* 808599560] for getREBHwVersions and [305877457, 305892521, 305879138]
\* for getREBSerialNumbers.
C22_CannedRebAnswers ==
    \A r \in {result[n] : n \in 1..Len(result)} :
        (r.from = "Ts8Proxy" /\ r.method = "synchCommand" /\ Len(r.args) = 2)
        => /\ r.args[2] = StrArg("getREBDeviceNames")
              => r.getResult.texts = <<"R00.Reb0", "R00.Reb1", "R00.Reb2">>
           /\ r.args[2] = StrArg("getREBHwVersions")
              => r.getResult.numbers = <<808599560, 808599560, 808599560>>
           /\ r.args[2] = StrArg("getREBSerialNumbers")
              => r.getResult.numbers = <<305877457, 305892521, 305879138>>

\* --------------------------------------------------------------- claim C23
\* What ccsProducer has done, in every state: the log holds the output of
\* the script's handle; when it raised, the log was written, the handle
\* holds captured lines and the error is the message with all of them,
\* one per line; when it returned, the handle holds none.
C23_ProducerState ==
    /\ logFile # <<>>
       => /\ handles # {}
          /\ logFile[1].name = producer[1].jobName \o ".log"
          /\ logFile[1].text = th[ProducerResult].execution_output
    /\ producer[1].at = "raised"
       => /\ logFile # <<>>
          /\ th[ProducerResult].java_exceptions # <<>>
          /\ pc = "failed"
          /\ raised = <<"RuntimeError: java.lang.Exceptions raised:\n"
                        \o JoinLines(th[ProducerResult].java_exceptions)>>
    /\ producer[1].at = "returned"
       => /\ logFile # <<>>
          /\ th[ProducerResult].java_exceptions = <<>>
          /\ raised = <<>>

\* What a step does: a listener that captures a line raises nothing in the
\* caller; a call of the bridge ends with an exception for a failed
\* connection or an unreadable file only; the log is written when the
\* script's submission has completed; and once the log is written the
\* next step of ccsProducer raises if and only if the handle holds
\* captured lines.
C23_ProducerStep ==
    /\ \A i \in 1..Len(th) :
           th'[i].java_exceptions # th[i].java_exceptions
           => raised' = raised /\ pc' = pc
    /\ (raised' # raised /\ producer'[1].at = "running")
       => \/ StartsAt(raised'[1], 1, "Could not connect")
          \/ StartsAt(raised'[1], 1, "IOError: ")
    /\ logFile' # logFile
       => /\ ~th[ProducerResult].running
          /\ th[ProducerResult].content = FileSystem[producer[1].ccsScript][1]
          /\ producer[1].at = "running"
    /\ (producer[1].at = "written" /\ producer'[1].at # "written")
       => (producer'[1].at = "raised" <=> th[ProducerResult].java_exceptions # <<>>)

\* C23: the bridge never raises for faults of the remote execution, it
\* only collects them; ccsProducer, when the script submission has
\* completed, writes the output of the script's handle to <jobName>.log
\* and then raises RuntimeError naming every captured line if and only if
\* the handle's exception list is not empty.
C23_ProducerRaisesAfterLog == []C23_ProducerState /\ [][C23_ProducerStep]_vars

\* ccsProducer raised for two lines captured in the script's submission,
\* after it wrote the log.
C23_Witness ==
    /\ producer # <<>>
    /\ producer[1].at = "raised"
    /\ logFile # <<>>
    /\ Len(th[ProducerResult].java_exceptions) = 2

\* --------------------------------------------------------------- claim C24
\* C24: whatever callbacks and getter calls came before, a getter of the
\* reply handler returns the latest message of its type delivered so far
\* (of its axis, for getAxisStatus), and None when no message of the type
\* was delivered.
C24_GettersReturnLatest ==
    [][\A getter \in DOMAIN GetterAttribute \cup {"getAxisStatus X", "getAxisStatus Y",
                                                  "getAxisStatus Z"} :
          (got' # got /\ got'[1].getter = getter)
          => /\ got'[1].outcome = "returned"
             /\ got'[1].value = delivered[IF getter \in DOMAIN GetterType
                                          THEN GetterType[getter]
                                          ELSE SubSeq(getter, Len(getter), Len(getter))]]_vars

\* --------------------------------------------------------------- claim C25
\* The i-th submission is in flight: its listener has not ended.
InFlight(i) == i <= Len(th) /\ th[i].running

\* C25: under sequential use and fair scheduling, with a remote that sends
\* the marker of every submission in one piece and reads that do not fail,
\* the listener of every submission in flight ends, and every call that
\* waits in getOutput()'s loop returns.
C25_ListenerEndsAndGetOutputReturns ==
    /\ \A i \in 1..MaxSubs : InFlight(i) ~> ~InFlight(i)
    /\ (pc = "poll") ~> (pc # "poll")

\* getOutput() returned for a submission made after the constructor's,
\* whose listener read a chunk that holds its whole marker and ended.
C25_Witness ==
    \E r \in returned :
        /\ r.h > 1
        /\ ~th[r.h].running
        /\ SawMarker(th[r.h])

\* --------------------------------------------------------------- claim C26
\* Listener a has read a chunk that holds the marker of submission b.
ReadMarkerOf(a, b) ==
    \E n \in 1..Len(th[a].reads) : Contains(th[a].reads[n], DoneMarker(th[b].id))

\* In this step listener a reads a chunk that holds the marker of another
\* submission b in flight.
ReadsMarkerOf(a, b) ==
    /\ a # b
    /\ th[a].running
    /\ th[b].running
    /\ Len(th'[a].reads) = Len(th[a].reads) + 1
    /\ Contains(Last(th'[a].reads), DoneMarker(th[b].id))

\* The chunk read in this step is appended to the output of listener a,
\* which keeps running.
TakenAsOutput(a) ==
    /\ th'[a].running
    /\ th'[a].execution_output = Started(th[a]).execution_output \o Last(th'[a].reads)

\* Once another listener has read the marker of submission b, which the
\* remote sends once, b's listener keeps running and getOutput() has not
\* returned for b.
LostMarkerBlocks ==
    \A a \in 1..Len(th) : \A b \in 1..Len(th) :
        (a # b /\ ReadMarkerOf(a, b))
        => /\ th[b].running
           /\ \A r \in returned : r.h # b

\* C26 as claimed: a listener that reads the chunk holding the marker of
\* another submission in flight appends the chunk to its own output and
\* keeps running, and the other submission's listener then keeps running
\* for ever and getOutput() on it never returns.
C26_ForeignMarkerIsOutput ==
    /\ []LostMarkerBlocks
    /\ [][\A a \in 1..Len(th) : \A b \in 1..Len(th) :
              ReadsMarkerOf(a, b) => TakenAsOutput(a)]_vars

\* C26: a listener that reads the chunk holding the marker of another
\* submission in flight appends the chunk to its own output and keeps
\* running unless the chunk holds its own marker as well, in which case it
\* ends and the chunk is dropped; either way the other submission's
\* listener then keeps running for ever and getOutput() on it never
\* returns.
C26_ForeignMarkerIsOutputUnlessOwn ==
    /\ []LostMarkerBlocks
    /\ [][\A a \in 1..Len(th) : \A b \in 1..Len(th) :
              ReadsMarkerOf(a, b)
              => IF Contains(Last(th'[a].reads), DoneMarker(th[a].id))
                 THEN /\ ~th'[a].running
                      /\ th'[a].execution_output = Started(th[a]).execution_output
                 ELSE TakenAsOutput(a)]_vars

\* Listener a has taken the marker of b as output and runs on, and the
\* calling script waits in getOutput() on b.
C26_Witness ==
    \E a \in 1..Len(th) : \E b \in 1..Len(th) :
        /\ a # b
        /\ ReadMarkerOf(a, b)
        /\ Contains(th[a].execution_output, DoneMarker(th[b].id))
        /\ th[a].running
        /\ pc = "poll"
        /\ op = "get"
        /\ cur = b

\* --------------------------------------------------------------- claim C27
\* The lines submission i's listener captured.
Captured(i) == {th[i].java_exceptions[n] : n \in 1..Len(th[i].java_exceptions)}

\* The submissions of a ccsProducer run whose handle is thrown away: the
\* constructor's and those of the setup commands.
Discarded == {i \in 1..Len(th) : handles # {} /\ i # ProducerResult}

\* Every captured line is held by the listener of the submission the
\* remote sent it for, and an error of ccsProducer names no line of a
\* submission other than the script's.
C27_CapturedWhereSent ==
    /\ \A i \in 1..Len(th) : \A line \in Captured(i) : Contains(line, th[i].id)
    /\ \A i \in Discarded : \A line \in Captured(i) :
           /\ line \notin Captured(ProducerResult)
           /\ \A n \in 1..Len(raised) : ~Contains(raised[n], line)

\* With nothing captured for the script itself, ccsProducer returns
\* whatever the other listeners captured.
C27_ReturnStep ==
    (/\ producer[1].at = "written"
     /\ producer'[1].at # "written"
     /\ Captured(ProducerResult) = {})
    => producer'[1].at = "returned" /\ raised' = <<>> /\ pc' = "idle"

\* C27: the fatal lines the remote sends while the initialization of the
\* session or a setup command of syncScriptExecution executes are captured
\* by that submission's listener only and never are in the exception list
\* of the handle syncScriptExecution returns, so ccsProducer does not raise
\* for them.
C27_SetupFaultsAreDropped == []C27_CapturedWhereSent /\ [][C27_ReturnStep]_vars

\* ccsProducer returned although the listener of the initialization and
\* the listener of a setup command each captured a line.
C27_Witness ==
    /\ producer # <<>>
    /\ producer[1].at = "returned"
    /\ Captured(1) # {}
    /\ th[1].content = "initializeInterpreter ts"
    /\ \E i \in Discarded : th[i].content = SetupCommands[1] /\ Captured(i) # {}

\* --------------------------------------------------------------- claim C28
\* In this step a syncScriptExecution call ends with an exception.
ScriptCallFails == script # <<>> /\ raised' # raised

\* C28: when the script file cannot be read, syncScriptExecution fails
\* with the file error only after every setup command, in the order given,
\* has been submitted in a frame of its own and its listener has read its
\* marker and ended; the failing step writes no frame and makes no
\* submission.
C28_FileReadAfterSetup ==
    [][ScriptCallFails
       => /\ raised' = <<"IOError: " \o script[1].filename>>
          /\ FileSystem[script[1].filename] = <<>>
          /\ pc' = "failed"
          /\ Len(th) = script[1].first + Len(script[1].given) - 1
          /\ Len(sent) = Len(th)
          /\ \A k \in 1..Len(script[1].given) :
                 LET i == script[1].first + k - 1
                 IN  /\ th[i].content = script[1].given[k]
                     /\ sent[i] = Frame(th[i].id, script[1].given[k])
                     /\ answered >= i
                     /\ SawMarker(th[i])
                     /\ ~th[i].running
          /\ sent' = sent
          /\ th' = th]_vars

\* A syncScriptExecution call with two setup commands failed on the file
\* after both were executed.
C28_Witness ==
    /\ pc = "failed"
    /\ raised = <<"IOError: missing.py">>
    /\ Len(th) >= 2
    /\ th[Len(th) - 1].content = SetupCommands[1]
    /\ th[Len(th)].content = SetupCommands[2]
    /\ SawMarker(th[Len(th)])
    /\ Len(sent) = Len(th)

\* --------------------------------------------------------------- claim C29
\* The lines the scan takes from each of chunks, in order.
RECURSIVE ScanChunks(_)
ScanChunks(chunks) == IF chunks = <<>> THEN <<>>
                      ELSE ScanLines(Split(Head(chunks))) \o ScanChunks(Tail(chunks))

\* C29: the scan for fatal lines is applied to every chunk a listener
\* reads, the chunk with its completion marker included, while that chunk
\* is left out of the output: the exception list holds the matching lines
\* of all chunks read, the output of an ended listener the chunks before
\* the marker chunk only.
C29_MarkerChunkIsScanned ==
    \A i \in 1..Len(th) :
        /\ th[i].java_exceptions = ScanChunks(th[i].reads)
        /\ th[i].lpc = "done"
           => /\ Contains(Last(th[i].reads), DoneMarker(th[i].id))
              /\ th[i].execution_output = Join(SubSeq(th[i].reads, 1, Len(th[i].reads) - 1))

\* A listener has ended on a chunk that held a fatal line and its marker:
\* the line is in its exception list and not in its output.
C29_Witness ==
    \E i \in 1..Len(th) :
        /\ th[i].lpc = "done"
        /\ \E n \in 1..Len(th[i].java_exceptions) :
               /\ Contains(Last(th[i].reads), th[i].java_exceptions[n])
               /\ ~Contains(th[i].execution_output, th[i].java_exceptions[n])
               /\ \A r \in returned : r.h = i => ~Contains(r.text, th[i].java_exceptions[n])
        /\ \E r \in returned : r.h = i

\* --------------------------------------------------------------- claim C30
\* Listener i has come to the end of the stream: a read returned nothing.
\* Listener i has come to the end of the stream: one of its reads returned
\* nothing.
AtEndOfStream(i) == \E n \in 1..Len(th[i].reads) : th[i].reads[n] = ""

\* A read that returns nothing changes neither the output nor the
\* exception list of the listener, which stays in its loop with running
\* set; and a listener that has come to the end of the stream with
\* running set keeps it set, while a getOutput() waiting for it does not
\* return.
C30_EmptyReadStep ==
    \A i \in 1..Len(th) :
        /\ (Len(th'[i].reads) = Len(th[i].reads) + 1 /\ Last(th'[i].reads) = "")
           => /\ th'[i].execution_output = Started(th[i]).execution_output
              /\ th'[i].java_exceptions = th[i].java_exceptions
              /\ th'[i].running
              /\ th'[i].lpc = "loop"
              /\ raised' = raised
        /\ (AtEndOfStream(i) /\ th[i].running)
           => /\ th'[i].running
              /\ (pc = "poll" /\ cur = i) => (pc' = "poll" /\ returned' = returned)

\* C30: a read that returns an empty chunk is neither a failure nor the
\* completion: the listener appends nothing, captures nothing and reads
\* again; a listener that has come to the end of the stream before it
\* read its marker never ends, its running stays true and getOutput() on
\* it never returns. Reads return nothing only when the peer has closed
\* the connection and nothing is left to read.
C30_EmptyReadNeverEnds ==
    /\ [](\A i \in 1..Len(th) : AtEndOfStream(i) => closed /\ sock = <<>>)
    /\ [][C30_EmptyReadStep]_vars

\* A listener has read nothing twice and runs on, and the calling script
\* waits in getOutput() on its handle.
C30_Witness ==
    /\ pc = "poll"
    /\ op = "get"
    /\ th[cur].running
    /\ EmptyReads(th[cur]) = 2

====
